---- MODULE Spec2Model ----
(***************************************************************************)
(* Authoritative air-hockey match server (src/unnamed/part_000, the most   *)
(* complete variant; src/server.js lines 349-1163 hold the same lifecycle  *)
(* code).  One Socket.IO event loop: every handler, interval tick and      *)
(* timeout callback runs to completion, so each is one atomic action.      *)
(*                                                                         *)
(* Time.  Date.now() is not kept as an absolute clock.  The code reads it  *)
(* only through differences, so the model keeps ages and remaining delays, *)
(* counted in units of 1000 ms (the delays 2000, 3000 and 30000 ms are     *)
(* multiples of it).  AdvanceTime lets one unit pass; a timeout callback   *)
(* runs when its remaining delay is 0 and time does not pass a due timer.  *)
(***************************************************************************)
EXTENDS Integers, Sequences, FiniteSets, TLC

\* ------------------------------------------------------------------ bounds
MaxSockets == 3                \* connections the environment may open
MaxResume == 2                 \* goal-resume timeouts pending at once
MaxJoiners == 2                \* connections that join the match in play
MaxMoves == 1                  \* ticks that move the puck per unit of time
MaxSent == 1                   \* playerMove messages one connection sends
MaxBurst == 2                  \* playerMove messages of one connection's burst
MaxAge == 2000                 \* ms after which a playerMove timestamp stops ageing

\* ------------------------------------------------------- program constants
PLAYER_RADIUS == 35
PUCK_RADIUS == 20
GOAL_WIDTH == 120
WINNING_SCORE == 10
FRICTION == 997                \* 0.997, in thousandths
AIR_RESISTANCE == 9998         \* 0.9998, in ten-thousandths
BOARD_RESTITUTION == 97        \* 0.97, in hundredths
MIN_VELOCITY == 200            \* 0.2 pixels per frame, in thousandths
MAX_SPEED == 30
GOAL_INTERVAL_MS == 2000       \* handleGoal: now - lastGoalTime < 2000
RESUME_DELAY_MS == 3000        \* handleGoal: setTimeout(..., 3000)
DELETE_DELAY_MS == 30000       \* disconnect: setTimeout(..., 30000)
MAX_BUFFER_SIZE == 5
MOVE_THROTTLE_BASE == 16
STALE_MS == 200                \* puckUpdate: updateAge > 200

\* A duration in milliseconds as a number of model time units.
Units(ms) == ms \div 1000

\* ------------------------------------------------------------------ inputs
Sockets == 1..MaxSockets
MatchIds == {"m1"}
NoMatchId == "none"            \* socket.matchId === undefined
\* scorer values a client may put in goalScored; 3 stands for every value
\* that is neither 1 nor 2.
Scorers == {1, 2, 3}
\* canvasSize values a client may report in playerReady.
CanvasSizes == {[width |-> 400, height |-> 600]}
\* ... and more of them: a second board, and the sizes of a canvas that is
\* not laid out yet (the handler takes whatever the client sends).
ReportedSizes == CanvasSizes \cup {[width |-> 800, height |-> 600],
                                   [width |-> 400, height |-> 0],
                                   [width |-> 0, height |-> 600]}

VARIABLES
  matches,       \* the registry: match id -> match record (const matches = new Map())
  sock,          \* per connection: connected, socket.matchId, socket.playerNumber,
                 \* and the handler closure's lastMoveTime and movementBuffer
  resumeTimers,  \* pending goal-resume timeouts, in arming order
  deleteTimers,  \* pending empty-match deletion timeouts, in arming order
  emitted,       \* the messages sent by the last step, in order
  moves,         \* ticks that moved the puck since time last passed
  lastTimeout,   \* history: what the deletion timeout did, if the last step
                 \* was its callback ("kept", "deleted"), else "none"
  lastStamp      \* history: <<timestamp>> of the puckUpdate that the last step
                 \* applied, else <<>>

vars == <<matches, sock, resumeTimers, deleteTimers, emitted, moves, lastTimeout,
          lastStamp>>

\* ---------------------------------------------------------------- helpers
Vec(x, y) == [x |-> x, y |-> y]
Zero == Vec(0, 0)

\* The value of 0 / 0: a number that no coordinate and no velocity component
\* takes.  Every comparison with it is false and every sum or product with it
\* is the value again, so the operators below test for it before they compute.
NaN == 1000000000
NaNVec == Vec(NaN, NaN)
IsNaN(v) == v.x = NaN \/ v.y = NaN

\* Numbers.  The code computes in floating point; the model computes in fixed
\* point: a position is a whole number of tenths of a pixel, a velocity a
\* whole number of thousandths of a pixel per frame.  Sizes the clients
\* report (canvasSize) and the program constants stay in pixels.
Px(p) == 10 * p                     \* pixels as a position
Speed(v) == 1000 * v                \* pixels per frame as a velocity
\* a / b rounded to the nearest whole number (b > 0), halves away from zero
RDiv(a, b) == IF a >= 0 THEN (2 * a + b) \div (2 * b)
              ELSE -((2 * (-a) + b) \div (2 * b))

Abs(x) == IF x < 0 THEN -x ELSE x
Sign(x) == IF x > 0 THEN 1 ELSE IF x < 0 THEN -1 ELSE 0     \* Math.sign
Max(a, b) == IF a > b THEN a ELSE b
Min(a, b) == IF a < b THEN a ELSE b

\* x * num / den rounded to the nearest whole number, computed so that no
\* intermediate value leaves 32 bits (num, den > 0).
Scale(x, num, den) ==
  Sign(x) * ((Abs(x) \div den) * num + RDiv((Abs(x) % den) * num, den))

\* The largest r with r * r <= n, found by bisection between lo and hi.
RECURSIVE SqrtBetween(_, _, _)
SqrtBetween(n, lo, hi) ==
  IF lo >= hi THEN lo
  ELSE LET mid == (lo + hi + 1) \div 2
       IN IF mid * mid <= n THEN SqrtBetween(n, mid, hi)
          ELSE SqrtBetween(n, lo, mid - 1)

\* Math.sqrt(n) rounded to the nearest whole number (0 <= n < 2^31).
Sqrt(n) == LET r == SqrtBetween(n, 0, Min(n, 46340))
           IN IF n - r * r > r THEN r + 1 ELSE r

\* Math.sqrt(x * x + y * y): large vectors are measured on a coarser grid.
Hyp(x, y) ==
  LET k == Max(Abs(x), Abs(y)) \div 16384 + 1
  IN k * Sqrt(RDiv(x, k) * RDiv(x, k) + RDiv(y, k) * RDiv(y, k))

\* Math.sqrt(x * x + y * y) < r and > r, decided on the squares (r < 2^15).
Shorter(x, y, r) == Abs(x) < r /\ Abs(y) < r /\ x * x + y * y < r * r
Longer(x, y, r) == Abs(x) > r \/ Abs(y) > r \/ x * x + y * y > r * r

\* if (speed > MAX_SPEED) velocity *= MAX_SPEED / speed
LimitSpeed_m(v) == v

LimitSpeed(v) ==
  IF IsNaN(v) THEN v
  ELSE IF Longer(v.x, v.y, Speed(MAX_SPEED))
  THEN LET k == Max(Abs(v.x), Abs(v.y)) \div 16384 + 1
           x == RDiv(v.x, k)
           y == RDiv(v.y, k)
           speed == Sqrt(x * x + y * y)
       IN Vec(RDiv(x * Speed(MAX_SPEED), speed), RDiv(y * Speed(MAX_SPEED), speed))
  ELSE v

\* puckUpdate payloads: the puck in mid board, shot at the top or at the
\* bottom goal at 1200 pixels per frame.
PuckShots == {[puckPos |-> Vec(Px(200), Px(300)), puckVelocity |-> Vec(0, Speed(-1200))],
              [puckPos |-> Vec(Px(200), Px(300)), puckVelocity |-> Vec(0, Speed(1200))]}

\* playerMove payloads: a position far outside the board.
MovePositions == {Vec(Px(-50), Px(1000))}
\* ms between two messages of one connection
MoveGaps == {5, 20}

\* puckUpdate timestamps: sent just now, 200 and 300 ms old, and missing.
Fresh == [known |-> TRUE, age |-> 0]
Timestamps == {Fresh, [known |-> TRUE, age |-> 200], [known |-> TRUE, age |-> 300],
               [known |-> FALSE, age |-> 0]}

\* One emitted message: its event name, its addressee and its payload.
Msg(type, to, arg) == [type |-> type, to |-> to, arg |-> arg]
Room(m) == <<"room", m>>            \* io.to(matchId)
Only(s) == <<"socket", s>>          \* socket.emit / the joinMatch callback
Others(s, m) == <<"others", s, m>> \* socket.to(matchId)

HasMsg(type) == \E i \in 1..Len(emitted) : emitted[i].type = type

\* Array.prototype.findIndex over the player list; 0 stands for -1.
RECURSIVE FindIndexFrom(_, _, _)
FindIndexFrom(players, id, i) ==
  IF i > Len(players) THEN 0
  ELSE IF players[i].id = id THEN i
  ELSE FindIndexFrom(players, id, i + 1)

FindIndex(players, id) == FindIndexFrom(players, id, 1)

\* Array.prototype.splice(i, 1)
RemoveAt(seq, i) == SubSeq(seq, 1, i - 1) \o SubSeq(seq, i + 1, Len(seq))

\* ------------------------------------------------------- Match State Store
NewMatch ==
  [ players |-> <<>>,
    lastGoalAge |-> Units(GOAL_INTERVAL_MS),   \* lastGoalTime: 0, ages ago
    updateInterval |-> FALSE,                  \* null
    \* the setInterval timers started for this match and not cleared, which
    \* the program does not count
    intervals |-> 0,
    lastSyncAge |-> 0,                         \* lastSyncTime: Date.now()
    goalCooldown |-> FALSE,
    \* collisionHistory: the ids in it that carry the present millisecond,
    \* each named by its player number; older ids never match again
    collisionHistory |-> {},
    \* positionHistory.player1/2: the entries, each with the milliseconds
    \* between it and the entry before (positionHistory.puck and
    \* previousState are written and never read)
    positionHistory |-> [player1 |-> <<>>, player2 |-> <<>>],
    gameState |->
      [ puckPos |-> Zero, puckVelocity |-> Zero,
        player1Pos |-> Zero, player2Pos |-> Zero,
        player1Score |-> 0, player2Score |-> 0,
        canvasSize |-> [width |-> 0, height |-> 0],
        isPlaying |-> FALSE, gameOver |-> FALSE, winner |-> 0 ] ]

Has(m) == m \in DOMAIN matches

\* getOrCreateMatch: the registry after the call.
getOrCreateMatch(reg, m) ==
  IF m \in DOMAIN reg THEN reg
  ELSE [x \in DOMAIN reg \cup {m} |-> IF x = m THEN NewMatch ELSE reg[x]]

\* matches.delete(m)
DeleteMatch(reg, m) == [x \in DOMAIN reg \ {m} |-> reg[x]]

Put(reg, m, mt) == [reg EXCEPT ![m] = mt]

\* ------------------------------------------------------- resets, game over
resetPositions_m(mt) ==
  LET w == mt.gameState.canvasSize.width
      h == mt.gameState.canvasSize.height
  IN IF w = 0 \/ h = 0 THEN mt
     ELSE [mt EXCEPT !.collisionHistory = {},
                     !.positionHistory = [player1 |-> <<>>, player2 |-> <<>>],
                     !.gameState.puckVelocity = Zero,
                     !.gameState.puckPos = Vec(RDiv(Px(w), 2), RDiv(Px(h), 2)),
                     !.gameState.player1Pos = Vec(RDiv(Px(w), 2), RDiv(Px(h), 4)),
                     !.gameState.player2Pos = Vec(RDiv(Px(w), 2), RDiv(Px(h) * 3, 4))]

resetPositions(mt) ==
  LET w == mt.gameState.canvasSize.width
      h == mt.gameState.canvasSize.height
  IN IF w = 0 \/ h = 0 THEN mt
     ELSE [mt EXCEPT !.collisionHistory = {},
                     !.positionHistory = [player1 |-> <<>>, player2 |-> <<>>],
                     !.gameState.puckVelocity = Zero,
                     !.gameState.puckPos = Vec(RDiv(Px(w), 2), RDiv(Px(h), 2)),
                     !.gameState.player1Pos = Vec(RDiv(Px(w), 2), RDiv(Px(h) * 3, 4)),
                     !.gameState.player2Pos = Vec(RDiv(Px(w), 2), RDiv(Px(h), 4))]

resetGame_m(mt) ==
  [mt EXCEPT !.gameState.player1Score = 0,
             !.gameState.player2Score = 0,
             !.gameState.gameOver = FALSE,
             !.gameState.winner = 0,
             !.lastGoalAge = Units(GOAL_INTERVAL_MS),
             !.goalCooldown = FALSE]

resetGame(mt) ==
  [resetPositions(mt) EXCEPT !.gameState.player1Score = 0,
                             !.gameState.player2Score = 0,
                             !.gameState.gameOver = FALSE,
                             !.gameState.winner = 0,
                             !.lastGoalAge = Units(GOAL_INTERVAL_MS),
                             !.goalCooldown = FALSE]

checkGameOver_early(mt) ==
  IF mt.gameState.player1Score >= 1
  THEN [mt EXCEPT !.gameState.gameOver = TRUE, !.gameState.winner = 1,
                  !.gameState.isPlaying = FALSE]
  ELSE IF mt.gameState.player2Score >= WINNING_SCORE
  THEN [mt EXCEPT !.gameState.gameOver = TRUE, !.gameState.winner = 2,
                  !.gameState.isPlaying = FALSE]
  ELSE mt

checkGameOver_m(mt) ==
  IF mt.gameState.player1Score >= WINNING_SCORE
  THEN [mt EXCEPT !.gameState.gameOver = TRUE, !.gameState.winner = 1,
                  !.gameState.isPlaying = FALSE]
  ELSE [mt EXCEPT !.gameState.winner = 2]

checkGameOver(mt) ==
  IF mt.gameState.player1Score >= WINNING_SCORE
  THEN [mt EXCEPT !.gameState.gameOver = TRUE, !.gameState.winner = 1,
                  !.gameState.isPlaying = FALSE]
  ELSE IF mt.gameState.player2Score >= WINNING_SCORE
  THEN [mt EXCEPT !.gameState.gameOver = TRUE, !.gameState.winner = 2,
                  !.gameState.isPlaying = FALSE]
  ELSE mt

\* -------------------------------------------------------------- handleGoal
\* The result of handleGoal(match, scorer) on match record mt of match id m:
\* whether the goal was accepted, the record afterwards, the messages sent,
\* and whether the resume timeout was armed.
TooSoon_m(mt) == FALSE

\* now - match.lastGoalTime < 2000
TooSoon(mt) == mt.lastGoalAge < Units(GOAL_INTERVAL_MS)

handleGoal(mt, m, scorer) ==
  IF TooSoon(mt) \/ mt.goalCooldown
  THEN [accepted |-> FALSE, match |-> mt, out |-> <<>>, arm |-> FALSE]
  ELSE
    LET m1 == [mt EXCEPT !.lastGoalAge = 0,
                         !.goalCooldown = TRUE,
                         !.gameState.isPlaying = FALSE]
        m2 == IF scorer = 1
              THEN [m1 EXCEPT !.gameState.player1Score = @ + 1]
              ELSE IF scorer = 2
              THEN [m1 EXCEPT !.gameState.player2Score = @ + 1]
              ELSE m1
        m3 == checkGameOver(m2)
        isGameOver == m3.gameState.gameOver
        m4 == resetPositions(m3)
        score == Msg("scoreUpdate", Room(m),
                     <<m4.gameState.player1Score, m4.gameState.player2Score, scorer>>)
        over == Msg("gameOver", Room(m),
                    <<m4.gameState.winner, m4.gameState.player1Score,
                      m4.gameState.player2Score>>)
    IN [accepted |-> TRUE, match |-> m4,
        out |-> IF isGameOver THEN <<score, over>> ELSE <<score>>,
        arm |-> ~isGameOver]

\* A freshly armed resume timeout of match m, set by the goal of `scorer`.
\* `live` tells whether the match object the callback closed over is still
\* the registry's record; `over` keeps that object's gameOver flag once it
\* has left the registry.  `reset` and `later` are history the program does
\* not keep: whether a requestReset was handled, and whether a later goal
\* was accepted, since the timeout was armed.
ResumeTimer(m, scorer) ==
  [id |-> m, left |-> Units(RESUME_DELAY_MS), live |-> TRUE, over |-> FALSE,
   scorer |-> scorer, reset |-> FALSE, later |-> FALSE]

\* History: the pending timeouts of match m after a requestReset ...
AfterReset(ts, m) ==
  [i \in 1..Len(ts) |-> IF ts[i].id = m THEN [ts[i] EXCEPT !.reset = TRUE]
                        ELSE ts[i]]
\* ... and after another accepted goal.
AfterGoal(ts, m) ==
  [i \in 1..Len(ts) |-> IF ts[i].id = m THEN [ts[i] EXCEPT !.later = TRUE]
                        ELSE ts[i]]

DeleteTimer(m) == [id |-> m, left |-> Units(DELETE_DELAY_MS)]

\* --------------------------------------------------------------- collisions
checkPuckPlayerCollision_m(puckPos, playerPos) == FALSE

checkPuckPlayerCollision(puckPos, playerPos) ==
  /\ ~IsNaN(puckPos)
  /\ Shorter(puckPos.x - playerPos.x, puckPos.y - playerPos.y,
             Px(PUCK_RADIUS + PLAYER_RADIUS))

\* Values of Math.random(), in hundredths (100: just under 1).
RandomValues == {0, 50, 100}

\* The result of handlePlayerCollision(match, playerNumber): the record
\* afterwards and the value returned.  sameMs: the collision id made of the
\* player number and Date.now() is already in collisionHistory.
handlePlayerCollision(mt, playerNumber, sameMs, rnd) ==
  LET gs == mt.gameState
      puckPos == gs.puckPos
      playerPos == IF playerNumber = 1 THEN gs.player1Pos ELSE gs.player2Pos
      m1 == [mt EXCEPT !.collisionHistory = @ \cup {playerNumber}]
      dx == puckPos.x - playerPos.x
      dy == puckPos.y - playerPos.y
      distance == Hyp(dx, dy)
      reach == Px(PLAYER_RADIUS + PUCK_RADIUS + 1)
      pushed == Vec(playerPos.x + Scale(dx, reach, distance),
                    playerPos.y + Scale(dy, reach, distance))
      history == IF playerNumber = 1 THEN mt.positionHistory.player1
                 ELSE mt.positionHistory.player2
      n == Len(history)
      \* (current.pos - previous.pos) / dt, dt in seconds
      playerVelocity ==
        IF n >= 2 /\ history[n].gap > 0
        THEN Vec(Scale(history[n].pos.x - history[n - 1].pos.x, 100000, history[n].gap),
                 Scale(history[n].pos.y - history[n - 1].pos.y, 100000, history[n].gap))
        ELSE Zero
      hit == IF Longer(playerVelocity.x, playerVelocity.y, Speed(5))
             THEN Vec(Scale(playerVelocity.x, 3, 2), Scale(playerVelocity.y, 3, 2))
             ELSE Vec(Scale(dx, Speed(10), distance), Scale(dy, Speed(10), distance))
      \* randomFactor = 1 + (Math.random() * 0.1 - 0.05)
      varied == Vec(Scale(hit.x, 950 + rnd, 1000), Scale(hit.y, 950 + rnd, 1000))
  IN IF sameMs /\ playerNumber \in mt.collisionHistory
     THEN [match |-> mt, ret |-> FALSE]
     ELSE IF dx = 0 /\ dy = 0 THEN [match |-> m1, ret |-> FALSE]
     ELSE [match |-> [m1 EXCEPT !.gameState.puckPos = pushed,
                                !.gameState.puckVelocity = LimitSpeed(varied)],
           ret |-> TRUE]

Corners(width, height) ==
  << [x |-> 0, y |-> 0, name |-> "topLeft"],
     [x |-> Px(width), y |-> 0, name |-> "topRight"],
     [x |-> 0, y |-> Px(height), name |-> "bottomLeft"],
     [x |-> Px(width), y |-> Px(height), name |-> "bottomRight"] >>

\* checkCornerCollision: the first corner nearer than radius, "none" if none.
checkCornerCollision(x, y, radius, width, height) ==
  LET corners == Corners(width, height)
      near(i) == Shorter(x - corners[i].x, y - corners[i].y, Px(radius))
  IN IF near(1) THEN corners[1].name
     ELSE IF near(2) THEN corners[2].name
     ELSE IF near(3) THEN corners[3].name
     ELSE IF near(4) THEN corners[4].name
     ELSE "none"

\* The match record after handleCornerCollision(match, cornerName).  A puck
\* exactly on the corner point divides 0 by 0: the model has no value for
\* the NaN coordinates that follow and leaves the puck where it is.
handleCornerCollision(mt, cornerName, rnd) ==
  LET gs == mt.gameState
      corners == Corners(gs.canvasSize.width, gs.canvasSize.height)
      corner == CHOOSE c \in {corners[i] : i \in 1..4} : c.name = cornerName
      dx == gs.puckPos.x - corner.x
      dy == gs.puckPos.y - corner.y
      distance == Hyp(dx, dy)
      v == gs.puckVelocity
      \* dotProduct = v . n with n = (dx, dy) / distance
      dotProduct == RDiv(v.x * dx + v.y * dy, distance)
      vnx == Scale(dotProduct, Abs(dx), distance) * Sign(dx)
      vny == Scale(dotProduct, Abs(dy), distance) * Sign(dy)
      vtx == v.x - vnx
      vty == v.y - vny
      \* CORNER_ELASTICITY = 0.85
      bx == vtx - Scale(vnx, 85, 100)
      by == vty - Scale(vny, 85, 100)
      \* randomFactor = 1 + (Math.random() * 0.05 - 0.025)
      edge == Px(PUCK_RADIUS) + 5
  \* There is no test for a zero distance here: a puck exactly on the corner
  \* point divides 0 by 0, and position and velocity both become NaN.
  IN IF distance = 0
     THEN [mt EXCEPT !.gameState.puckPos = NaNVec,
                     !.gameState.puckVelocity = NaNVec]
     ELSE [mt EXCEPT
             !.gameState.puckPos = Vec(corner.x + Scale(dx, edge, distance),
                                       corner.y + Scale(dy, edge, distance)),
             !.gameState.puckVelocity = Vec(Scale(bx, 1950 + rnd, 2000),
                                            Scale(by, 1950 + rnd, 2000))]

\* ------------------------------------------------------- updatePuckPhysics
\* Elapsed milliseconds a tick may measure: the interval's 16 ms, or more
\* after a pause (deltaTime is capped at 50 ms).
TickDts == {16, 50}

\* What Math.pow(FRICTION, deltaTime) * Math.pow(AIR_RESISTANCE, deltaTime)
\* takes off a velocity in dt milliseconds, in millionths: to first order
\* deltaTime * ((1 - FRICTION) + (1 - AIR_RESISTANCE)).
Loss(dt) == RDiv(((1000 - FRICTION) * 1000 + (10000 - AIR_RESISTANCE) * 100) * dt,
                 1000)

\* -v * BOARD_RESTITUTION, kept at 2 pixels per frame or more
Bounce(v) ==
  LET b == Scale(-v, BOARD_RESTITUTION, 100)
  IN IF Abs(b) < Speed(2) THEN Sign(b) * Speed(2) ELSE b

Suspended_m(mt) == ~mt.gameState.isPlaying \/ mt.gameState.gameOver

\* !isPlaying || gameOver || match.goalCooldown: the physics is skipped
Suspended(mt) ==
  ~mt.gameState.isPlaying \/ mt.gameState.gameOver \/ mt.goalCooldown

\* The result of updatePuckPhysics(match): the record afterwards, the value
\* returned, whether a goal raised inside it was accepted and by which
\* scorer, and what that goal sent and armed.
updatePuckPhysics(mt, m, dt, sameMs, rnd) ==
  LET gs == mt.gameState
      out(match, ret) == [match |-> match, ret |-> ret, out |-> <<>>,
                          arm |-> FALSE, goal |-> FALSE, scorer |-> 0]
      v == Vec(gs.puckVelocity.x - Scale(gs.puckVelocity.x, Loss(dt), 1000000),
               gs.puckVelocity.y - Scale(gs.puckVelocity.y, Loss(dt), 1000000))
      slowed == [mt EXCEPT !.gameState.puckVelocity = v]
      \* stepFactor = deltaTime * 60
      newX == gs.puckPos.x + Scale(v.x, dt * 6, 10000)
      newY == gs.puckPos.y + Scale(v.y, dt * 6, 10000)
      new == Vec(newX, newY)
      width == gs.canvasSize.width
      height == gs.canvasSize.height
      limited(match) ==
        out([match EXCEPT !.gameState.puckVelocity = LimitSpeed(@)], TRUE)
      corner == checkCornerCollision(newX, newY, PUCK_RADIUS, width, height)
      \* side walls
      left == newX - Px(PUCK_RADIUS) < 0
      right == newX + Px(PUCK_RADIUS) > Px(width)
      afterX ==
        IF left
        THEN [slowed EXCEPT !.gameState.puckPos.x = Px(PUCK_RADIUS) + 5,
                            !.gameState.puckVelocity.x = Bounce(@)]
        ELSE IF right
        THEN [slowed EXCEPT !.gameState.puckPos.x = Px(width) - Px(PUCK_RADIUS) - 5,
                            !.gameState.puckVelocity.x = Bounce(@)]
        ELSE [slowed EXCEPT !.gameState.puckPos.x = newX]
      \* end walls and goals
      top == newY - Px(PUCK_RADIUS) < 0
      bottom == newY + Px(PUCK_RADIUS) > Px(height)
      inGoal == /\ 2 * newX > Px(width - GOAL_WIDTH)
                /\ 2 * newX < Px(width + GOAL_WIDTH)
      scorer == IF top THEN 1 ELSE 2
      valid == /\ ~mt.goalCooldown
               /\ IF top THEN v.y < 0 ELSE v.y > 0
      goal == handleGoal(afterX, m, scorer)
      edgeY == IF top THEN Px(PUCK_RADIUS) + 5
               ELSE Px(height) - Px(PUCK_RADIUS) - 5
      afterY ==
        IF top \/ bottom
        THEN [afterX EXCEPT !.gameState.puckPos.y = edgeY,
                            !.gameState.puckVelocity.y =
                               IF inGoal THEN Scale(-@, BOARD_RESTITUTION, 100)
                               ELSE Bounce(@)]
        ELSE [afterX EXCEPT !.gameState.puckPos.y = newY]
  IN IF Suspended(mt) THEN out(mt, FALSE)
     \* NaN fails every comparison of the step and stays NaN
     ELSE IF IsNaN(gs.puckPos) \/ IsNaN(gs.puckVelocity) THEN out(mt, FALSE)
     ELSE IF Shorter(v.x, v.y, MIN_VELOCITY)
     THEN out([mt EXCEPT !.gameState.puckVelocity = Zero], FALSE)
     ELSE IF checkPuckPlayerCollision(new, gs.player1Pos)
     THEN limited(handlePlayerCollision(slowed, 1, sameMs, rnd).match)
     ELSE IF checkPuckPlayerCollision(new, gs.player2Pos)
     THEN limited(handlePlayerCollision(slowed, 2, sameMs, rnd).match)
     ELSE IF corner # "none"
     THEN limited(handleCornerCollision(slowed, corner, rnd))
     ELSE IF (top \/ bottom) /\ inGoal /\ valid
     THEN [match |-> goal.match, ret |-> TRUE, out |-> goal.out,
           arm |-> goal.arm, goal |-> goal.accepted, scorer |-> scorer]
     ELSE IF left \/ right \/ top \/ bottom THEN limited(afterY)
     ELSE out(afterY, FALSE)

\* -------------------------------------------------------------------- Init
Init ==
  /\ matches = [x \in {} |-> NewMatch]
  /\ sock = [s \in Sockets |->
               [connected |-> TRUE, matchId |-> NoMatchId, playerNumber |-> 0,
                \* now - lastMoveTime in ms, where lastMoveTime = 0 at first
                lastMoveAge |-> MaxAge,
                \* the entries, each with the ms since its timestamp
                movementBuffer |-> <<>>]]
  /\ resumeTimers = <<>>
  /\ deleteTimers = <<>>
  /\ emitted = <<>>
  /\ moves = 0
  /\ lastTimeout = "none"
  /\ lastStamp = <<>>

\* ----------------------------------------------------------------- actions
\* A handler that returns early without touching the match or sending
\* anything is a step that changes nothing, so its early returns are the
\* guards of its action.

MatchFull_m(mt) == Len(mt.players) >= 3

\* match.players.length >= 2
MatchFull(mt) == Len(mt.players) >= 2

\* socket.on("joinMatch").  Socket ids carry no meaning, so they number the
\* connections in the order of their first joinMatch.
JoinMatch(s, m) ==
  /\ sock[s].connected
  /\ (IF s = 1 THEN TRUE ELSE sock[s - 1].matchId # NoMatchId)
  /\ LET reg == getOrCreateMatch(matches, m)
         mt == reg[m]
         playerNumber == Len(mt.players) + 1
         joined == [mt EXCEPT !.players = Append(@,
                      [id |-> s, number |-> playerNumber, ready |-> FALSE])]
     IN IF MatchFull(mt)
        THEN /\ matches' = reg
             /\ emitted' = <<Msg("joinAck", Only(s), <<FALSE>>)>>
             /\ UNCHANGED sock
        ELSE /\ matches' = Put(reg, m, joined)
             /\ sock' = [sock EXCEPT ![s].matchId = m,
                                     ![s].playerNumber = playerNumber]
             /\ emitted' =
                  <<Msg("joinAck", Only(s), <<TRUE, playerNumber, Len(joined.players)>>),
                    Msg("playerJoined", Room(m), <<playerNumber, Len(joined.players)>>)>>
                  \o (IF Len(joined.players) = 2
                      THEN <<Msg("matchReady", Room(m), <<>>)>> ELSE <<>>)
                  \o <<Msg("ping", Only(s), <<>>)>>
  /\ UNCHANGED <<resumeTimers, deleteTimers, moves>>
  /\ lastTimeout' = "none"
  /\ lastStamp' = <<>>

startGameLoop_m(mt) == mt

startGameLoop_leak(mt) ==
  [mt EXCEPT !.intervals = @ + 1, !.updateInterval = TRUE]

\* startGameLoop: any existing interval is cleared and one new interval set.
startGameLoop(mt) ==
  [mt EXCEPT !.intervals = (IF mt.updateInterval THEN @ - 1 ELSE @) + 1,
             !.updateInterval = TRUE]

\* stopGameLoop
stopGameLoop(mt) ==
  IF mt.updateInterval
  THEN [mt EXCEPT !.intervals = @ - 1, !.updateInterval = FALSE]
  ELSE mt

\* The match a connection's handlers work on: matches.get(socket.matchId).
InMatch(s) == sock[s].matchId # NoMatchId /\ Has(sock[s].matchId)

\* socket.on("playerReady")
PlayerReady(s, canvasSize) ==
  /\ sock[s].connected
  /\ InMatch(s)
  /\ FindIndex(matches[sock[s].matchId].players, s) # 0
  /\ LET m == sock[s].matchId
         mt == matches[m]
         i == FindIndex(mt.players, s)
         m1 == [mt EXCEPT !.players[i].ready = TRUE]
         m2 == IF m1.gameState.canvasSize.width = 0
               THEN resetPositions([m1 EXCEPT !.gameState.canvasSize = canvasSize])
               ELSE m1
         allReady == \A k \in 1..Len(m2.players) : m2.players[k].ready
         start == allReady /\ Len(m2.players) = 2
         m3 == IF start
               THEN startGameLoop([m2 EXCEPT !.gameState.isPlaying = TRUE])
               ELSE m2
     IN /\ matches' = Put(matches, m, m3)
        /\ emitted' = IF start THEN <<Msg("gameStart", Room(m), <<>>)>> ELSE <<>>
  /\ UNCHANGED <<sock, resumeTimers, deleteTimers, moves>>
  /\ lastTimeout' = "none"
  /\ lastStamp' = <<>>

GoalScored_m(s, scorer) ==
  /\ sock[s].connected
  /\ InMatch(s)
  /\ LET m == sock[s].matchId
         r == handleGoal([matches[m] EXCEPT !.goalCooldown = FALSE], m, scorer)
     IN /\ r.accepted
        /\ r.arm => Len(resumeTimers) < MaxResume
        /\ matches' = Put(matches, m, r.match)
        /\ emitted' = r.out
        /\ resumeTimers' =
             IF r.arm THEN Append(AfterGoal(resumeTimers, m), ResumeTimer(m, scorer))
             ELSE AfterGoal(resumeTimers, m)
  /\ UNCHANGED <<sock, deleteTimers, moves>>
  /\ lastTimeout' = "none"
  /\ lastStamp' = <<>>

\* socket.on("goalScored")
GoalScored(s, scorer) ==
  /\ sock[s].connected
  /\ InMatch(s)
  /\ ~matches[sock[s].matchId].gameState.gameOver
  /\ LET m == sock[s].matchId
         r == handleGoal(matches[m], m, scorer)
     IN /\ r.accepted
        /\ r.arm => Len(resumeTimers) < MaxResume
        /\ matches' = Put(matches, m, r.match)
        /\ emitted' = r.out
        /\ resumeTimers' =
             IF r.arm THEN Append(AfterGoal(resumeTimers, m), ResumeTimer(m, scorer))
             ELSE AfterGoal(resumeTimers, m)
  /\ UNCHANGED <<sock, deleteTimers, moves>>
  /\ lastTimeout' = "none"
  /\ lastStamp' = <<>>

\* updateAge > 200, where updateAge = now - timestamp.  A timestamp is
\* modelled by its age in ms; one that is missing from the message makes
\* updateAge NaN, and NaN > 200 is false.
Stale(timestamp) == timestamp.known /\ timestamp.age > STALE_MS

\* socket.on("puckUpdate")
blend_m(server, client) == client

\* server * (1 - blendFactor) + client * blendFactor, blendFactor = 0.3
blend(server, client) ==
  IF server = NaN \/ client = NaN THEN NaN
  ELSE RDiv(server * 7 + client * 3, 10)

PuckUpdate(s, puckPos, puckVelocity, timestamp) ==
  /\ sock[s].connected
  /\ InMatch(s)
  /\ matches[sock[s].matchId].gameState.isPlaying
  /\ ~matches[sock[s].matchId].gameState.gameOver
  /\ ~Stale(timestamp)
  /\ LET m == sock[s].matchId
         gs == matches[m].gameState
         pos == Vec(blend(gs.puckPos.x, puckPos.x), blend(gs.puckPos.y, puckPos.y))
         vel == Vec(blend(gs.puckVelocity.x, puckVelocity.x),
                    blend(gs.puckVelocity.y, puckVelocity.y))
     IN /\ matches' = [matches EXCEPT ![m].gameState.puckPos = pos,
                                      ![m].gameState.puckVelocity = vel]
        /\ emitted' = <<Msg("puckSync", Others(s, m), <<pos, vel>>)>>
  /\ UNCHANGED <<sock, resumeTimers, deleteTimers, moves>>
  /\ lastTimeout' = "none"
  /\ lastStamp' = <<timestamp, puckPos, puckVelocity>>

\* enforcePlayerConstraints(match, playerNumber, position)
enforcePlayerConstraints_m(mt, playerNumber, position) ==
  LET w == mt.gameState.canvasSize.width
      h == mt.gameState.canvasSize.height
      newX == Max(0, Min(position.x, Px(w)))
      newY == IF playerNumber = 1
              THEN Max(RDiv(Px(h), 2), Min(position.y, Px(h)))
              ELSE Min(RDiv(Px(h), 2), Max(position.y, 0))
  IN IF w = 0 \/ h = 0 THEN position ELSE Vec(newX, newY)

enforcePlayerConstraints(mt, playerNumber, position) ==
  LET w == mt.gameState.canvasSize.width
      h == mt.gameState.canvasSize.height
      newX == Max(Px(PLAYER_RADIUS), Min(position.x, Px(w - PLAYER_RADIUS)))
      newY == IF playerNumber = 1
              THEN Max(RDiv(Px(h), 2) + Px(PLAYER_RADIUS),
                       Min(position.y, Px(h - PLAYER_RADIUS)))
              ELSE Min(RDiv(Px(h), 2) - Px(PLAYER_RADIUS),
                       Max(position.y, Px(PLAYER_RADIUS)))
  IN IF w = 0 \/ h = 0 THEN position ELSE Vec(newX, newY)

\* calculateVelocity(positionHistory), in tenths of a pixel per second
calculateVelocity(history) ==
  LET n == Len(history)
  IN IF n < 2 THEN Zero
     ELSE IF history[n].gap <= 0 THEN Zero
     ELSE Vec(Scale(history[n].pos.x - history[n - 1].pos.x, 1000, history[n].gap),
              Scale(history[n].pos.y - history[n - 1].pos.y, 1000, history[n].gap))

Throttled_m(age, buffer) ==
  LET n == Len(buffer)
      dx == buffer[n].position.x - buffer[1].position.x
      dy == buffer[n].position.y - buffer[1].position.y
      dt == buffer[1].age - buffer[n].age
      measured == n >= 2 /\ dt > 0
      distance == Hyp(dx, dy)
  IN IF measured /\ distance > 10 * dt
     THEN /\ age < MOVE_THROTTLE_BASE
          /\ (MOVE_THROTTLE_BASE - age) * 5 * dt > distance
     ELSE IF ~measured \/ distance < dt
     THEN age < Min(33, MOVE_THROTTLE_BASE + 10)
     ELSE age < MOVE_THROTTLE_BASE

\* now - lastMoveTime < throttleRate, for a connection whose last accepted
\* move is `age` ms old and whose movementBuffer is `buffer` (the present
\* message pushed).  movementSpeed is in pixels per ms.
Throttled(age, buffer) ==
  LET n == Len(buffer)
      dx == buffer[n].position.x - buffer[1].position.x
      dy == buffer[n].position.y - buffer[1].position.y
      dt == buffer[1].age - buffer[n].age
      measured == n >= 2 /\ dt > 0
      distance == Hyp(dx, dy)              \* tenths of a pixel
  IN IF measured /\ distance > 10 * dt
     \* throttleRate = Math.max(8, MOVE_THROTTLE_BASE - movementSpeed * 2)
     THEN \/ age < 8
          \/ /\ age < MOVE_THROTTLE_BASE
             /\ (MOVE_THROTTLE_BASE - age) * 5 * dt > distance
     ELSE IF ~measured \/ distance < dt
     \* throttleRate = Math.min(33, MOVE_THROTTLE_BASE + 10)
     THEN age < Min(33, MOVE_THROTTLE_BASE + 10)
     ELSE age < MOVE_THROTTLE_BASE

\* socket.on("playerMove"), received `gap` ms after the time the ages of
\* this connection were last counted.  A player's position history is taken
\* to be written by one connection, so the time between its last two
\* entries is the time between that connection's accepted moves.
PlayerMove(s, position, gap, sameMs, rnd) ==
  /\ sock[s].connected
  /\ InMatch(s)
  /\ matches[sock[s].matchId].gameState.isPlaying
  /\ ~matches[sock[s].matchId].gameState.gameOver
  /\ LET m == sock[s].matchId
         mt == matches[m]
         playerNumber == sock[s].playerNumber
         age == Min(sock[s].lastMoveAge + gap, MaxAge)
         older == [i \in 1..Len(sock[s].movementBuffer) |->
                     [sock[s].movementBuffer[i] EXCEPT !.age = Min(@ + gap, MaxAge)]]
         pushed == Append(older, [position |-> position, age |-> 0])
         buffer == IF Len(pushed) > MAX_BUFFER_SIZE THEN Tail(pushed) ELSE pushed
         constrainedPosition == enforcePlayerConstraints(mt, playerNumber, position)
         entry == [pos |-> constrainedPosition, gap |-> age]
         keep(h) == IF Len(h) + 1 > 10 THEN Tail(Append(h, entry)) ELSE Append(h, entry)
         m1 == IF playerNumber = 1
               THEN [mt EXCEPT !.gameState.player1Pos = constrainedPosition,
                               !.positionHistory.player1 = keep(@)]
               ELSE IF playerNumber = 2
               THEN [mt EXCEPT !.gameState.player2Pos = constrainedPosition,
                               !.positionHistory.player2 = keep(@)]
               ELSE mt
         opponentMove ==
           Msg("opponentMove", Others(s, m),
               <<playerNumber, constrainedPosition,
                 calculateVelocity(IF playerNumber = 1 THEN m1.positionHistory.player1
                                   ELSE m1.positionHistory.player2)>>)
         collision == checkPuckPlayerCollision(m1.gameState.puckPos, constrainedPosition)
         r == IF collision THEN handlePlayerCollision(m1, playerNumber, sameMs, rnd)
              ELSE [match |-> m1, ret |-> FALSE]
     IN IF Throttled(age, buffer)
        THEN /\ sock' = [sock EXCEPT ![s].lastMoveAge = age,
                                     ![s].movementBuffer = buffer]
             /\ emitted' = <<>>
             /\ UNCHANGED matches
        ELSE /\ sock' = [sock EXCEPT ![s].lastMoveAge = 0,
                                     ![s].movementBuffer = buffer]
             /\ matches' = Put(matches, m, r.match)
             /\ emitted' = <<opponentMove>>
                  \o (IF r.ret
                      THEN <<Msg("puckSync", Room(m),
                                <<r.match.gameState.puckPos,
                                  r.match.gameState.puckVelocity>>)>>
                      ELSE <<>>)
  /\ UNCHANGED <<resumeTimers, deleteTimers, moves>>
  /\ lastTimeout' = "none"
  /\ lastStamp' = <<>>

\* socket.on("requestReset")
RequestReset(s) ==
  /\ sock[s].connected
  /\ InMatch(s)
  /\ LET m == sock[s].matchId
     IN /\ matches' = Put(matches, m, resetGame(matches[m]))
        /\ emitted' = <<Msg("gameReset", Room(m), <<>>)>>
        /\ resumeTimers' = AfterReset(resumeTimers, m)
  /\ UNCHANGED <<sock, deleteTimers, moves>>
  /\ lastTimeout' = "none"
  /\ lastStamp' = <<>>

\* socket.on("disconnect"): the connection is gone for good afterwards.
Disconnect(s) ==
  /\ sock[s].connected
  /\ InMatch(s)
  /\ FindIndex(matches[sock[s].matchId].players, s) # 0
  /\ sock' = [sock EXCEPT ![s].connected = FALSE]
  /\ LET m == sock[s].matchId
         mt == matches[m]
         playerIndex == FindIndex(mt.players, s)
         leftPlayerNumber == mt.players[playerIndex].number
         m1 == [mt EXCEPT !.players = RemoveAt(@, playerIndex)]
         m2 == stopGameLoop(m1)
     IN /\ matches' = Put(matches, m, m2)
        /\ emitted' = <<Msg("playerLeft", Others(s, m),
                            <<leftPlayerNumber, Len(m2.players)>>)>>
        /\ deleteTimers' = IF Len(m2.players) = 0
                           THEN Append(deleteTimers, DeleteTimer(m))
                           ELSE deleteTimers
  /\ UNCHANGED <<resumeTimers, moves>>
  /\ lastTimeout' = "none"
  /\ lastStamp' = <<>>

resumeGame_reset(mt) == [resetGame(mt) EXCEPT !.gameState.isPlaying = TRUE]

resumeGame_m(mt) ==
  [mt EXCEPT !.goalCooldown = FALSE,
             !.positionHistory = [player1 |-> <<>>, player2 |-> <<>>],
             !.gameState.puckPos =
                Vec(RDiv(Px(mt.gameState.canvasSize.width), 2),
                    RDiv(Px(mt.gameState.canvasSize.height), 2)),
             !.gameState.puckVelocity = Zero]

\* What the resume callback does to the match it closed over.
resumeGame(mt) ==
  [mt EXCEPT !.gameState.isPlaying = TRUE,
             !.goalCooldown = FALSE,
             !.positionHistory = [player1 |-> <<>>, player2 |-> <<>>],
             !.gameState.puckPos =
                Vec(RDiv(Px(mt.gameState.canvasSize.width), 2),
                    RDiv(Px(mt.gameState.canvasSize.height), 2)),
             !.gameState.puckVelocity = Zero]

\* The timeout armed by handleGoal (the setTimeout callback, 3000 ms later).
FireResume ==
  /\ resumeTimers # <<>>
  /\ Head(resumeTimers).left = 0
  /\ resumeTimers' = Tail(resumeTimers)
  /\ LET t == Head(resumeTimers) IN
     IF t.live
     THEN LET mt == matches[t.id]
          IN IF ~mt.gameState.gameOver
             THEN /\ matches' = Put(matches, t.id, resumeGame(mt))
                  /\ emitted' = <<Msg("resumeGame", Room(t.id), <<>>)>>
             ELSE /\ emitted' = <<>>
                  /\ UNCHANGED matches
     ELSE \* the closed-over match object has left the registry: the callback
          \* changes that object alone and still emits to the room
          /\ emitted' = IF ~t.over THEN <<Msg("resumeGame", Room(t.id), <<>>)>>
                        ELSE <<>>
          /\ UNCHANGED matches
  /\ UNCHANGED <<sock, deleteTimers, moves>>
  /\ lastTimeout' = "none"
  /\ lastStamp' = <<>>

StillEmpty_m(reg, m) == m \in DOMAIN reg

\* matches.get(matchId) && matches.get(matchId).players.length === 0
StillEmpty(reg, m) == m \in DOMAIN reg /\ Len(reg[m].players) = 0

\* The timeout armed by the disconnect handler (30000 ms later).
FireDelete ==
  /\ deleteTimers # <<>>
  /\ Head(deleteTimers).left = 0
  /\ deleteTimers' = Tail(deleteTimers)
  /\ emitted' = <<>>
  /\ lastTimeout' = IF StillEmpty(matches, Head(deleteTimers).id)
                    THEN "deleted" ELSE "kept"
  /\ lastStamp' = <<>>
  /\ LET m == Head(deleteTimers).id IN
     IF StillEmpty(matches, m)
     THEN /\ matches' = DeleteMatch(matches, m)
          /\ resumeTimers' =
               [i \in 1..Len(resumeTimers) |->
                  IF resumeTimers[i].id = m /\ resumeTimers[i].live
                  THEN [resumeTimers[i] EXCEPT
                          !.live = FALSE, !.over = matches[m].gameState.gameOver]
                  ELSE resumeTimers[i]]
     ELSE UNCHANGED <<matches, resumeTimers>>
  /\ UNCHANGED <<sock, moves>>

\* One unit of time passes; no timeout is due.
AdvanceTime ==
  /\ \A i \in 1..Len(resumeTimers) : resumeTimers[i].left > 0
  /\ \A i \in 1..Len(deleteTimers) : deleteTimers[i].left > 0
  /\ resumeTimers' = [i \in 1..Len(resumeTimers) |->
                        [resumeTimers[i] EXCEPT !.left = @ - 1]]
  /\ deleteTimers' = [i \in 1..Len(deleteTimers) |->
                        [deleteTimers[i] EXCEPT !.left = @ - 1]]
  /\ matches' = [m \in DOMAIN matches |->
                   [matches[m] EXCEPT
                      !.lastGoalAge = Min(@ + 1, Units(GOAL_INTERVAL_MS)),
                      !.collisionHistory = {},
                      !.lastSyncAge = Min(@ + 1, 1)]]
  /\ emitted' = <<>>
  /\ moves' = 0
  /\ sock' = [s \in Sockets |->
               [sock[s] EXCEPT
                  !.lastMoveAge = Min(@ + 1000, MaxAge),
                  !.movementBuffer =
                     [i \in 1..Len(@) |-> [@[i] EXCEPT !.age = Min(@ + 1000, MaxAge)]]]]
  /\ lastTimeout' = "none"
  /\ lastStamp' = <<>>

\* interpolatedPuckData: puckPos + puckVelocity * 0.05
interpolated(gs) ==
  IF IsNaN(gs.puckPos) \/ IsNaN(gs.puckVelocity) THEN NaNVec
  ELSE Vec(gs.puckPos.x + Scale(gs.puckVelocity.x, 1, 2000),
           gs.puckPos.y + Scale(gs.puckVelocity.y, 1, 2000))

fullSync_m(collisionOccurred, late) == late

\* collisionOccurred || Date.now() - match.lastSyncTime > 500
fullSync(collisionOccurred, late) == collisionOccurred \/ late

\* The setInterval callback of startGameLoop.
Tick(m) ==
  /\ Has(m)
  /\ matches[m].intervals > 0
  /\ matches[m].gameState.isPlaying
  /\ Len(matches[m].players) = 2
  /\ ~matches[m].gameState.gameOver
  /\ \E r \in {updatePuckPhysics(matches[m], m, dt, sameMs, rnd) :
                 dt \in TickDts, sameMs \in BOOLEAN, rnd \in RandomValues} :
       LET \* Date.now() - match.lastSyncTime > 500: certain once a time unit
           \* has passed, open within the same unit
           late == IF r.match.lastSyncAge >= 1 THEN {TRUE} ELSE BOOLEAN
           moved == /\ ~r.goal
                    /\ r.match.gameState # matches[m].gameState
       IN /\ r.arm => Len(resumeTimers) < MaxResume
          /\ moved => moves < MaxMoves
          /\ moves' = IF moved THEN moves + 1 ELSE moves
          /\ \E due \in late :
               LET sync == fullSync(r.ret, due) IN
               /\ matches' = Put(matches, m,
                     [r.match EXCEPT !.lastSyncAge = IF sync THEN 0 ELSE @])
               /\ emitted' = r.out
                    \o <<Msg("gameUpdate", Room(m),
                             <<interpolated(r.match.gameState),
                               r.match.gameState.puckVelocity, r.ret>>)>>
                    \o (IF sync
                        THEN <<Msg("puckSync", Room(m),
                                  <<r.match.gameState.puckPos,
                                    r.match.gameState.puckVelocity>>)>>
                        ELSE <<>>)
          /\ resumeTimers' =
               IF r.arm
               THEN Append(AfterGoal(resumeTimers, m), ResumeTimer(m, r.scorer))
               ELSE IF r.goal THEN AfterGoal(resumeTimers, m)
               ELSE resumeTimers
  /\ UNCHANGED <<sock, deleteTimers>>
  /\ lastTimeout' = "none"
  /\ lastStamp' = <<>>

\* ---------------------------------------------------------- specifications
\* The match in play.  The environment: MaxJoiners connections send
\* joinMatch, each once, and a disconnect never leaves the match without
\* players, so no deletion timeout is armed.
Join(s, m) == s <= MaxJoiners /\ sock[s].matchId = NoMatchId /\ JoinMatch(s, m)
\* A client corrects the puck only while the game loop runs the physics
\* and has the puck at rest.
Shot(s, u) == /\ InMatch(s)
              /\ matches[sock[s].matchId].updateInterval
              /\ ~matches[sock[s].matchId].goalCooldown
              /\ matches[sock[s].matchId].gameState.puckVelocity = Zero
              /\ PuckUpdate(s, u.puckPos, u.puckVelocity, Fresh)
Leave(s) == /\ InMatch(s)
            /\ Len(matches[sock[s].matchId].players) >= 2
            /\ Disconnect(s)

Next ==
  \/ \E s \in Sockets, m \in MatchIds : Join(s, m)
  \/ \E s \in Sockets, c \in CanvasSizes : PlayerReady(s, c)
  \/ \E s \in Sockets, k \in Scorers : GoalScored(s, k)
  \/ \E s \in Sockets : RequestReset(s)
  \/ \E s \in Sockets : Leave(s)
  \/ \E s \in Sockets, u \in PuckShots : Shot(s, u)
  \/ \E m \in MatchIds : Tick(m)
  \/ FireResume
  \/ AdvanceTime

Spec == Init /\ [][Next]_vars

\* The match in play under the event loop's guarantees: time passes, and a
\* timeout that is due runs.
LiveSpec == Spec /\ WF_vars(AdvanceTime) /\ WF_vars(FireResume)

\* The players' moves.  The environment: MaxJoiners connections join, each
\* once, and stay; connection 1 shoots the resting puck at the top goal; a
\* connection sends at most MaxSent playerMove messages.
Move(s, p, gap) ==
  /\ Len(sock[s].movementBuffer) < MaxSent
  /\ \E sameMs \in BOOLEAN, rnd \in RandomValues : PlayerMove(s, p, gap, sameMs, rnd)

NextMove ==
  \/ \E s \in Sockets, m \in MatchIds : Join(s, m)
  \/ \E s \in Sockets, c \in CanvasSizes : PlayerReady(s, c)
  \/ \E s \in Sockets, p \in MovePositions, gap \in MoveGaps : Move(s, p, gap)
  \/ \E u \in {v \in PuckShots : v.puckVelocity.y < 0} : Shot(1, u)
  \/ \E s \in Sockets : RequestReset(s)
  \/ \E m \in MatchIds : Tick(m)
  \/ FireResume
  \/ AdvanceTime

SpecMove == Init /\ [][NextMove]_vars

\* The clients' puck corrections.  The environment: MaxJoiners connections
\* join, each once, and stay; they send puckUpdate, with any of Timestamps,
\* while the game loop runs and has the puck at rest.
Update(s, u, t) ==
  /\ InMatch(s)
  /\ matches[sock[s].matchId].updateInterval
  /\ ~matches[sock[s].matchId].goalCooldown
  /\ matches[sock[s].matchId].gameState.puckVelocity = Zero
  /\ PuckUpdate(s, u.puckPos, u.puckVelocity, t)

NextPuck ==
  \/ \E s \in Sockets, m \in MatchIds : Join(s, m)
  \/ \E s \in Sockets, c \in CanvasSizes : PlayerReady(s, c)
  \/ \E s \in Sockets, u \in PuckShots, t \in Timestamps : Update(s, u, t)
  \/ \E s \in Sockets : RequestReset(s)
  \/ \E m \in MatchIds : Tick(m)
  \/ FireResume
  \/ AdvanceTime

SpecPuck == Init /\ [][NextPuck]_vars

\* One tick of the physics.  updatePuckPhysics is a function of the match
\* record, so its cases are started directly: two ready players are playing
\* on a board of 800 x 600, the clients' puckUpdate and playerMove messages
\* have brought the puck and the players to one of the situations below
\* (puckUpdate blends any position and velocity in, playerMove any position
\* of the player's half), and the game loop ticks.
BigCanvas == [width |-> 800, height |-> 600]
TickPucks ==
  { [puckPos |-> Vec(Px(400), Px(10)), puckVelocity |-> Vec(0, Speed(-5))],
    [puckPos |-> Vec(Px(400), Px(15)), puckVelocity |-> Vec(0, Speed(1))],
    [puckPos |-> Vec(Px(400), Px(570)), puckVelocity |-> Vec(0, Speed(20))],
    [puckPos |-> Vec(Px(30), Px(30)), puckVelocity |-> Vec(-20800, -20800)],
    [puckPos |-> Vec(Px(770), Px(570)), puckVelocity |-> Vec(20800, 20800)],
    [puckPos |-> Vec(Px(30), Px(300)), puckVelocity |-> Vec(Speed(-20), Speed(3))],
    [puckPos |-> Vec(Px(770), Px(300)), puckVelocity |-> Vec(Speed(20), 0)],
    [puckPos |-> Vec(Px(100), Px(30)), puckVelocity |-> Vec(0, Speed(-20))],
    [puckPos |-> Vec(Px(100), Px(575)), puckVelocity |-> Vec(500, 500)],
    [puckPos |-> Vec(Px(400), Px(380)), puckVelocity |-> Vec(0, Speed(18))],
    [puckPos |-> Vec(Px(400), Px(300)), puckVelocity |-> Vec(Speed(5), Speed(5))],
    [puckPos |-> Vec(Px(400), Px(300)), puckVelocity |-> Vec(100, 100)],
    [puckPos |-> Vec(Px(400), Px(300)), puckVelocity |-> Zero] }
\* player 1 and player 2: at their initial positions, both at the centre
\* line, or both in the left corners of their halves
TickPlayers ==
  { [player1Pos |-> Vec(Px(400), Px(450)), player2Pos |-> Vec(Px(400), Px(150))],
    [player1Pos |-> Vec(Px(400), Px(335)), player2Pos |-> Vec(Px(400), Px(265))],
    [player1Pos |-> Vec(Px(35), Px(565)), player2Pos |-> Vec(Px(35), Px(35))] }

\* The match record of two ready players playing on the big board, the puck
\* as in u and the players as in q
PlayingMatch(u, q, cool) ==
  [NewMatch EXCEPT
     !.players = <<[id |-> 1, number |-> 1, ready |-> TRUE],
                   [id |-> 2, number |-> 2, ready |-> TRUE]>>,
     !.updateInterval = TRUE,
     !.intervals = 1,
     \* a goal in cooldown, after a playerReady set isPlaying again
     !.goalCooldown = cool,
     !.lastGoalAge = IF cool THEN 0 ELSE @,
     !.gameState.canvasSize = BigCanvas,
     !.gameState.isPlaying = TRUE,
     !.gameState.puckPos = u.puckPos,
     !.gameState.puckVelocity = u.puckVelocity,
     !.gameState.player1Pos = q.player1Pos,
     !.gameState.player2Pos = q.player2Pos]

\* connections 1 and 2 have joined m1 as players 1 and 2
TwoJoined ==
  [s \in Sockets |->
     [connected |-> TRUE,
      matchId |-> IF s <= 2 THEN "m1" ELSE NoMatchId,
      playerNumber |-> IF s <= 2 THEN s ELSE 0,
      lastMoveAge |-> MaxAge,
      movementBuffer |-> <<>>]]

InitTick ==
  /\ \E u \in TickPucks, q \in TickPlayers, cool \in BOOLEAN, age \in {0, 1} :
       \* the last full sync was sent within this unit of time, or before
       matches = [m \in MatchIds |->
                    [PlayingMatch(u, q, cool) EXCEPT !.lastSyncAge = age]]
  /\ sock = TwoJoined
  /\ resumeTimers = <<>>
  /\ deleteTimers = <<>>
  /\ emitted = <<>>
  /\ moves = 0
  /\ lastTimeout = "none"
  /\ lastStamp = <<>>

NextTick == \E m \in MatchIds : Tick(m)

SpecTick == InitTick /\ [][NextTick]_vars

\* Bursts of playerMove.  The two players of a playing match each send up to
\* MaxBurst moves, 5 or 20 ms apart, from positions inside and outside their
\* halves of the board; the puck rests at the centre.
BurstPositions ==
  { Vec(Px(-50), Px(1000)), Vec(Px(1000), Px(-50)),
    Vec(Px(400), Px(500)), Vec(Px(450), Px(500)) }

InitBurst ==
  /\ matches = [m \in MatchIds |->
       PlayingMatch([puckPos |-> Vec(Px(400), Px(300)), puckVelocity |-> Zero],
                    [player1Pos |-> Vec(Px(400), Px(450)),
                     player2Pos |-> Vec(Px(400), Px(150))], FALSE)]
  /\ sock = TwoJoined
  /\ resumeTimers = <<>>
  /\ deleteTimers = <<>>
  /\ emitted = <<>>
  /\ moves = 0
  /\ lastTimeout = "none"
  /\ lastStamp = <<>>

Burst(s, p, gap) ==
  /\ Len(sock[s].movementBuffer) < MaxBurst
  /\ \E sameMs \in BOOLEAN, rnd \in RandomValues : PlayerMove(s, p, gap, sameMs, rnd)

NextBurst == \E s \in Sockets, p \in BurstPositions, gap \in MoveGaps : Burst(s, p, gap)

SpecBurst == InitBurst /\ [][NextBurst]_vars

\* One puck correction.  A player of a playing match, the puck and the
\* players in any of the situations of InitTick, sends one fresh puckUpdate
\* that reports any of these pucks.
Correct(s, u) == lastStamp = <<>> /\ PuckUpdate(s, u.puckPos, u.puckVelocity, Fresh)

NextCorrect == \E s \in Sockets, u \in TickPucks : Correct(s, u)

SpecCorrect == InitTick /\ [][NextCorrect]_vars

\* puckUpdate payloads whose blend with the server's puck of TickPucks lies
\* exactly on a corner point of the board or exactly on player 1, still moving
CornerUpdates ==
  { [puckPos |-> Vec(Px(-70), Px(-70)), puckVelocity |-> Vec(Speed(40), Speed(40))],
    [puckPos |-> Vec(Px(870), Px(670)), puckVelocity |-> Vec(Speed(-40), Speed(-40))],
    [puckPos |-> Vec(Px(400), 6133), puckVelocity |-> Zero],
    [puckPos |-> Vec(Px(400), Px(300)), puckVelocity |-> Vec(Speed(5), Speed(5))] }

NextCorner ==
  \/ \E s \in Sockets, u \in CornerUpdates : emitted = <<>> /\ Correct(s, u)
  \/ \E m \in MatchIds : Tick(m)

\* a match in play receives one puckUpdate first of all, and the game loop
\* ticks
SpecCorner == InitTick /\ [][NextCorner]_vars

\* The puck in player 1's half, at rest, slow, and faster than MAX_SPEED (as a
\* puckUpdate leaves it); at the centre on its way to player 2; and faster
\* than MAX_SPEED in front of the right wall and of the top-left corner
HitPucks ==
  { [puckPos |-> Vec(Px(400), Px(400)), puckVelocity |-> Zero],
    [puckPos |-> Vec(Px(400), Px(400)), puckVelocity |-> Vec(Speed(3), Speed(-4))],
    [puckPos |-> Vec(Px(400), Px(400)), puckVelocity |-> Vec(Speed(30), Speed(-30))],
    [puckPos |-> Vec(Px(400), Px(300)), puckVelocity |-> Vec(0, Speed(-5))],
    [puckPos |-> Vec(Px(770), Px(300)), puckVelocity |-> Vec(Speed(40), Speed(1))],
    [puckPos |-> Vec(Px(30), Px(30)), puckVelocity |-> Vec(Speed(-30), Speed(-30))] }

\* playerMove positions: next to the puck, on top of it, and far from it
HitPositions ==
  { Vec(Px(400), Px(430)), Vec(Px(400), Px(400)), Vec(Px(370), Px(360)),
    Vec(Px(400), Px(565)), Vec(Px(400), Px(100)) }

InitHit ==
  /\ \E u \in HitPucks, cool \in BOOLEAN :
       matches = [m \in MatchIds |->
                    PlayingMatch(u, [player1Pos |-> Vec(Px(400), Px(450)),
                                     player2Pos |-> Vec(Px(400), Px(150))], cool)]
  /\ sock = TwoJoined
  /\ resumeTimers = <<>>
  /\ deleteTimers = <<>>
  /\ emitted = <<>>
  /\ moves = 0
  /\ lastTimeout = "none"
  /\ lastStamp = <<>>

\* one of at most MaxBurst playerMove messages of the two players together
Hit(s, p, gap) ==
  /\ Len(sock[1].movementBuffer) + Len(sock[2].movementBuffer) < MaxBurst
  /\ \E sameMs \in BOOLEAN, rnd \in RandomValues : PlayerMove(s, p, gap, sameMs, rnd)

NextHit ==
  \/ \E s \in Sockets, p \in HitPositions, gap \in MoveGaps : Hit(s, p, gap)
  \/ \E m \in MatchIds : Tick(m)

\* the players of a match in play move their strikers at the puck between
\* the ticks of the game loop
SpecHit == InitHit /\ [][NextHit]_vars

\* The board size.  The environment: every connection joins once, a
\* disconnect never leaves the match without players, the clients report
\* any of ReportedSizes, and only connection 1 sends goalScored, for
\* player 1.
JoinOnce(s, m) == sock[s].matchId = NoMatchId /\ JoinMatch(s, m)

NextCanvas ==
  \/ \E s \in Sockets, m \in MatchIds : JoinOnce(s, m)
  \/ \E s \in Sockets, c \in ReportedSizes : PlayerReady(s, c)
  \/ GoalScored(1, 1)
  \/ \E s \in Sockets : RequestReset(s)
  \/ \E s \in Sockets : Leave(s)
  \/ \E m \in MatchIds : Tick(m)
  \/ FireResume
  \/ AdvanceTime

SpecCanvas == Init /\ [][NextCanvas]_vars

\* The registry.  The environment sends no goalScored; connections may send
\* joinMatch again and may leave the match empty.
NextRegistry ==
  \/ \E s \in Sockets, m \in MatchIds : JoinMatch(s, m)
  \/ \E s \in Sockets, c \in CanvasSizes : PlayerReady(s, c)
  \/ \E s \in Sockets : RequestReset(s)
  \/ \E s \in Sockets : Disconnect(s)
  \/ \E m \in MatchIds : Tick(m)
  \/ FireDelete
  \/ AdvanceTime

SpecRegistry == Init /\ [][NextRegistry]_vars

\* The registry under the event loop's guarantees: time passes, and a
\* deletion timeout that is due runs.
LiveRegistry == SpecRegistry /\ WF_vars(AdvanceTime) /\ WF_vars(FireDelete)

\* ------------------------------------------------------------------ claims
EmittedIn(e, type) == \E i \in 1..Len(e) : e[i].type = type
Rejected(e) == \E i \in 1..Len(e) : e[i].type = "joinAck" /\ ~e[i].arg[1]
Score(m) == matches[m].gameState.player1Score + matches[m].gameState.player2Score

\* C1: under joinMatch and disconnect events in any order a match never
\* holds more than 2 players, and a joinMatch that is answered with
\* success:false leaves the registry, the connections and both kinds of
\* timers as they were.
C1_Capacity ==
  /\ [](\A m \in MatchIds : Has(m) => Len(matches[m].players) <= 2)
  /\ [][Rejected(emitted') =>
          UNCHANGED <<matches, sock, resumeTimers, deleteTimers>>]_vars

C1_Witness ==
  /\ Rejected(emitted)
  /\ \E m \in MatchIds : Has(m) /\ Len(matches[m].players) = 2

\* C2: the players of one match hold pairwise distinct slot numbers, each
\* 1 or 2.
C2_DistinctSlots ==
  \A m \in MatchIds : Has(m) =>
    LET ps == matches[m].players IN
    /\ \A i \in 1..Len(ps) : ps[i].number \in {1, 2}
    /\ \A i, j \in 1..Len(ps) : i # j => ps[i].number # ps[j].number

\* C3: gameOver implies that isPlaying is false.
C3_OverNotPlaying ==
  \A m \in MatchIds : Has(m) =>
    (matches[m].gameState.gameOver => ~matches[m].gameState.isPlaying)

\* C4: winner is 1 or 2 exactly when gameOver is true and 0 exactly when
\* gameOver is false.
C4_WinnerIffOver ==
  \A m \in MatchIds : Has(m) =>
    LET gs == matches[m].gameState IN
    /\ gs.winner \in {1, 2} <=> gs.gameOver
    /\ gs.winner = 0 <=> ~gs.gameOver

C4_Witness ==
  \E m \in MatchIds : /\ Has(m)
                      /\ matches[m].gameState.gameOver
                      /\ matches[m].gameState.winner = 2
                      /\ matches[m].gameState.player2Score = WINNING_SCORE

\* A step in which a goal of match m registers: a score goes up.
Registers(m) ==
  /\ Has(m)
  /\ m \in DOMAIN matches'
  /\ \/ matches'[m].gameState.player1Score > matches[m].gameState.player1Score
     \/ matches'[m].gameState.player2Score > matches[m].gameState.player2Score

\* Timeout t was armed by a goal of match m that registered less than
\* 2000 ms ago: less than 3000 - 2000 ms of its delay have passed.
RecentGoal(m, t) ==
  /\ t.id = m
  /\ t.live
  /\ t.scorer \in {1, 2}
  /\ t.left > Units(RESUME_DELAY_MS) - Units(GOAL_INTERVAL_MS)

\* C5 as stated: no goal registers less than 2000 ms after another goal of
\* the same match registered, whatever happened in between.
C5_GoalInterval ==
  [][\A m \in MatchIds : Registers(m) =>
       \A i \in 1..Len(resumeTimers) : ~RecentGoal(m, resumeTimers[i])]_vars

\* C5 amended: no goal registers less than 2000 ms after another goal of
\* the same match registered, unless a requestReset was handled in between.
C5_GoalIntervalNoReset ==
  [][\A m \in MatchIds : Registers(m) =>
       \A i \in 1..Len(resumeTimers) :
          RecentGoal(m, resumeTimers[i]) => resumeTimers[i].reset]_vars

C5_Witness ==
  \E m \in MatchIds : /\ Has(m)
                      /\ Score(m) >= 2
                      /\ EmittedIn(emitted, "scoreUpdate")
                      /\ \A i \in 1..Len(resumeTimers) : ~resumeTimers[i].reset

\* C6: gameOver turns from false to true in exactly the steps in which an
\* accepted goal brings a score to WINNING_SCORE; that step sets winner to
\* the goal's scorer and isPlaying to false and broadcasts a gameOver notice
\* that carries the winner.
C6_GameOverIffWinningGoal ==
  [][\A m \in MatchIds : (Has(m) /\ m \in DOMAIN matches') =>
       LET flips == /\ ~matches[m].gameState.gameOver
                    /\ matches'[m].gameState.gameOver
           winning ==
             /\ \E i \in 1..Len(emitted') : /\ emitted'[i].type = "scoreUpdate"
                                            /\ emitted'[i].to = Room(m)
             /\ \/ /\ matches'[m].gameState.player1Score = WINNING_SCORE
                   /\ matches[m].gameState.player1Score = WINNING_SCORE - 1
                \/ /\ matches'[m].gameState.player2Score = WINNING_SCORE
                   /\ matches[m].gameState.player2Score = WINNING_SCORE - 1
       IN /\ flips <=> winning
          /\ flips =>
               /\ ~matches'[m].gameState.isPlaying
               /\ \E i \in 1..Len(emitted') :
                     /\ emitted'[i].type = "scoreUpdate"
                     /\ emitted'[i].arg[3] = matches'[m].gameState.winner
               /\ \E i \in 1..Len(emitted') :
                     /\ emitted'[i].type = "gameOver"
                     /\ emitted'[i].to = Room(m)
                     /\ emitted'[i].arg[1] = matches'[m].gameState.winner]_vars

C6_Witness ==
  \E m \in MatchIds : /\ Has(m)
                      /\ EmittedIn(emitted, "gameOver")
                      /\ matches[m].gameState.gameOver
                      /\ matches[m].gameState.winner = 1
                      /\ ~matches[m].gameState.isPlaying

\* C7: every accepted goal (one that broadcasts scoreUpdate) names scorer 1
\* or 2 and raises that scorer's score by 1 and no other score.
C7_AcceptedGoalScores ==
  [][\A m \in MatchIds : (Has(m) /\ m \in DOMAIN matches') =>
       \A i \in 1..Len(emitted') :
          (emitted'[i].type = "scoreUpdate" /\ emitted'[i].to = Room(m)) =>
            LET scorer == emitted'[i].arg[3]
                g == matches[m].gameState
                h == matches'[m].gameState
            IN /\ scorer \in {1, 2}
               /\ scorer = 1 => /\ h.player1Score = g.player1Score + 1
                                /\ h.player2Score = g.player2Score
               /\ scorer = 2 => /\ h.player2Score = g.player2Score + 1
                                /\ h.player1Score = g.player1Score]_vars

\* The board centre of match m.
Centre(m) == Vec(RDiv(Px(matches[m].gameState.canvasSize.width), 2),
                 RDiv(Px(matches[m].gameState.canvasSize.height), 2))

GoalAccepted(m) ==
  /\ Has(m)
  /\ EmittedIn(emitted, "scoreUpdate")
  /\ ~matches[m].gameState.gameOver

Resumed(m) ==
  /\ Has(m)
  /\ EmittedIn(emitted, "resumeGame")
  /\ ~matches[m].goalCooldown
  /\ matches[m].gameState.isPlaying
  /\ matches[m].gameState.puckPos = Centre(m)
  /\ matches[m].gameState.puckVelocity = Zero

\* C8: after an accepted goal that does not end the game, the match comes
\* to have goalCooldown false and isPlaying true with the puck at rest in
\* the board centre, in a step that broadcasts resumeGame, unless a
\* requestReset or a disconnect is handled first.
C8_GoalResumes ==
  \A m \in MatchIds :
    GoalAccepted(m) ~> (\/ Resumed(m)
                        \/ EmittedIn(emitted, "gameReset")
                        \/ EmittedIn(emitted, "playerLeft"))

C8_Witness ==
  \E m \in MatchIds : /\ Resumed(m)
                      /\ Score(m) >= 1
                      /\ matches[m].updateInterval

\* C9: the resume timeout changes the match or broadcasts resumeGame only
\* when, as it fires, the match is still in the cooldown its goal started:
\* goalCooldown is set and neither a requestReset nor a later accepted goal
\* has come since the timeout was armed.
C9_ResumeRechecks ==
  [][(/\ Len(resumeTimers') < Len(resumeTimers)
      /\ (matches' # matches \/ EmittedIn(emitted', "resumeGame")))
     => LET t == Head(resumeTimers)
        IN /\ t.live
           /\ matches[t.id].goalCooldown
           /\ ~t.reset
           /\ ~t.later]_vars

\* C10: a match leaves the registry only when every deletion timeout armed
\* for it has run its 30000 ms, that is, not less than 30 s after the last
\* time it became empty.
C10_DeleteAfterGrace ==
  [][\A m \in MatchIds : (Has(m) /\ m \notin DOMAIN matches') =>
       \A i \in 1..Len(deleteTimers') :
          deleteTimers'[i].id = m => deleteTimers'[i].left = 0]_vars

\* C11: a match that holds at least one player never leaves the registry,
\* and a deletion timeout that runs while the match holds a player (one has
\* joined again since it was armed) leaves the whole match record, its
\* players and its gameState included, as it was.
C11_PlayersKeepMatch ==
  [][\A m \in MatchIds : (Has(m) /\ Len(matches[m].players) >= 1) =>
       /\ m \in DOMAIN matches'
       /\ lastTimeout' # "none" => matches'[m] = matches[m]]_vars

C11_Witness ==
  /\ lastTimeout = "kept"
  /\ \E m \in MatchIds : Has(m) /\ Len(matches[m].players) >= 1

\* Every connection that match m lists as a player has disconnected.
AllGone(m) ==
  /\ Has(m)
  /\ \A i \in 1..Len(matches[m].players) : ~sock[matches[m].players[i].id].connected

\* C12: a match whose players have all disconnected is eventually removed
\* from the registry, unless somebody joins it afterwards.
C12_AbandonedMatchRemoved ==
  \A m \in MatchIds :
    AllGone(m) ~> (~Has(m) \/ EmittedIn(emitted, "playerJoined"))

\* The values a reset gives the fields of match m named by C13.
ResetValues(m) ==
  LET gs == matches[m].gameState
      w == Px(gs.canvasSize.width)
      h == Px(gs.canvasSize.height)
  IN /\ gs.player1Score = 0 /\ gs.player2Score = 0
     /\ ~gs.gameOver /\ gs.winner = 0
     /\ ~matches[m].goalCooldown
     /\ gs.puckPos = Vec(RDiv(w, 2), RDiv(h, 2))
     /\ gs.puckVelocity = Zero
     /\ gs.player1Pos = Vec(RDiv(w, 2), RDiv(h * 3, 4))
     /\ gs.player2Pos = Vec(RDiv(w, 2), RDiv(h, 4))

CanvasKnown(m) ==
  /\ matches[m].gameState.canvasSize.width > 0
  /\ matches[m].gameState.canvasSize.height > 0

\* A step the server takes without a message that changes a match: a tick,
\* a timeout callback, the passing of time, or a message that is answered
\* with nothing.
NoInput ==
  \/ EmittedIn(emitted', "gameUpdate")
  \/ Len(resumeTimers') < Len(resumeTimers)
  \/ emitted' = <<>>

\* C13: a requestReset handled in a match with a known canvas leaves both
\* scores 0, gameOver false, winner 0, goalCooldown false, the puck at rest
\* in the board centre and both players at their initial positions; these
\* fields keep their values while no further input arrives; and a second
\* requestReset would change nothing in the match (reset twice = once).
C13_ResetRestores ==
  [][\A m \in MatchIds : (Has(m) /\ m \in DOMAIN matches' /\ CanvasKnown(m)) =>
       /\ EmittedIn(emitted', "gameReset") =>
            /\ ResetValues(m)'
            /\ resetGame(matches'[m]) = matches'[m]
       /\ (ResetValues(m) /\ NoInput) => ResetValues(m)']_vars

\* A reset was handled right after player 1 had moved off its initial
\* position in a running game.
C13_Witness ==
  \E m \in MatchIds :
    /\ Has(m)
    /\ EmittedIn(emitted, "gameReset")
    /\ ResetValues(m)
    /\ matches[m].gameState.isPlaying
    /\ matches[m].lastGoalAge = Units(GOAL_INTERVAL_MS)
    /\ \E s \in Sockets : /\ sock[s].playerNumber = 1
                          /\ sock[s].movementBuffer # <<>>
                          /\ sock[s].lastMoveAge = 0

\* C14: the first playerReady that reports a board of W x H, both positive,
\* puts the puck at (W/2, H/2) with zero velocity, player 1 at (W/2, 0.75 H)
\* and player 2 at (W/2, 0.25 H); for 800 x 600 these are (400, 300),
\* (400, 450) and (400, 150).
C14_FirstReadyPlaces ==
  [][\A m \in MatchIds : (Has(m) /\ m \in DOMAIN matches') =>
       LET old == matches[m].gameState.canvasSize
           gs == matches'[m].gameState
           W == gs.canvasSize.width
           H == gs.canvasSize.height
       IN (old.width = 0 /\ gs.canvasSize # old /\ W > 0 /\ H > 0) =>
            /\ 2 * gs.puckPos.x = Px(W) /\ 2 * gs.puckPos.y = Px(H)
            /\ gs.puckVelocity = Zero
            /\ 2 * gs.player1Pos.x = Px(W) /\ 4 * gs.player1Pos.y = 3 * Px(H)
            /\ 2 * gs.player2Pos.x = Px(W) /\ 4 * gs.player2Pos.y = Px(H)
            /\ (W = 800 /\ H = 600) =>
                  /\ gs.puckPos = Vec(Px(400), Px(300))
                  /\ gs.player1Pos = Vec(Px(400), Px(450))
                  /\ gs.player2Pos = Vec(Px(400), Px(150))]_vars

\* The first playerReady of a match has reported 800 x 600.
C14_Witness ==
  \E m \in MatchIds :
    /\ Has(m)
    /\ matches[m].gameState.canvasSize = [width |-> 800, height |-> 600]
    /\ matches[m].gameState.player1Pos = Vec(Px(400), Px(450))
    /\ Cardinality({i \in 1..Len(matches[m].players) : matches[m].players[i].ready}) = 1
    /\ emitted = <<>>

\* C15: in every reachable state the canvasSize of a match is either unset
\* (width 0 and height 0) or has both dimensions positive, whatever sizes
\* the clients report in playerReady.
C15_CanvasUnsetOrPositive ==
  \A m \in MatchIds : Has(m) =>
    LET c == matches[m].gameState.canvasSize
    IN \/ c.width = 0 /\ c.height = 0
       \/ c.width > 0 /\ c.height > 0

\* C16: the board size of a match is set once: a step changes canvasSize
\* only when no playerReady has set it yet, so no later playerReady,
\* requestReset, goal, disconnect or join changes it.
C16_CanvasSetOnce ==
  [][\A m \in MatchIds : (Has(m) /\ m \in DOMAIN matches') =>
       (matches'[m].gameState.canvasSize # matches[m].gameState.canvasSize
          => matches[m].gameState.canvasSize = NewMatch.gameState.canvasSize)]_vars

\* The players of a match record are two and all ready.
TwoReady(mt) ==
  /\ Len(mt.players) = 2
  /\ \A i \in 1..Len(mt.players) : mt.players[i].ready

\* A playerReady step that marks a player of match m ready: the player
\* list changes in a ready flag only.
MarksReady(m) ==
  /\ Has(m) /\ m \in DOMAIN matches'
  /\ Len(matches'[m].players) = Len(matches[m].players)
  /\ \E i \in 1..Len(matches[m].players) :
        /\ ~matches[m].players[i].ready
        /\ matches'[m].players = [matches[m].players EXCEPT ![i].ready = TRUE]

\* C17: a playerReady after which the match holds two players that are all
\* ready sets isPlaying, leaves the tick schedule of the match active and
\* broadcasts gameStart; a playerReady after which the match has fewer than
\* two players or a player that is not ready starts no tick schedule, does
\* not set isPlaying and broadcasts no gameStart.
C17_ReadyStarts ==
  [][\A m \in MatchIds :
       /\ (MarksReady(m) /\ TwoReady(matches'[m])) =>
             /\ matches'[m].gameState.isPlaying
             /\ matches'[m].updateInterval
             /\ \E i \in 1..Len(emitted') : /\ emitted'[i].type = "gameStart"
                                            /\ emitted'[i].to = Room(m)
       /\ (MarksReady(m) /\ ~TwoReady(matches'[m])) =>
             /\ matches'[m].updateInterval = matches[m].updateInterval
             /\ matches'[m].gameState.isPlaying = matches[m].gameState.isPlaying
             /\ ~EmittedIn(emitted', "gameStart")
       /\ (EmittedIn(emitted', "gameStart") /\ m \in DOMAIN matches') =>
             TwoReady(matches'[m])]_vars

C17_Witness ==
  \E m \in MatchIds :
    /\ Has(m)
    /\ EmittedIn(emitted, "gameStart")
    /\ TwoReady(matches[m])
    /\ matches[m].gameState.isPlaying
    /\ matches[m].updateInterval

\* C18: whenever isPlaying is true the match holds exactly two players,
\* both connected and both ready.
C18_PlayingHasTwoReady ==
  \A m \in MatchIds : (Has(m) /\ matches[m].gameState.isPlaying) =>
    /\ TwoReady(matches[m])
    /\ \A i \in 1..Len(matches[m].players) : sock[matches[m].players[i].id].connected

\* C19: a disconnect of a connection that is a player removes that player's
\* entry, leaves the match without an active tick schedule and sends
\* playerLeft with the leaver's slot and the new player count; afterwards
\* the disconnected connection is in no match's player list.
C19_DisconnectRemovesPlayer ==
  /\ [][\A m \in MatchIds :
          (EmittedIn(emitted', "playerLeft") /\ Has(m) /\ m \in DOMAIN matches') =>
            /\ Len(matches'[m].players) = Len(matches[m].players) - 1
            /\ ~matches'[m].updateInterval
            /\ \E s \in Sockets :
                  /\ sock[s].connected /\ ~sock'[s].connected
                  /\ \E i \in 1..Len(matches[m].players) :
                        /\ matches[m].players[i].id = s
                        /\ matches'[m].players = RemoveAt(matches[m].players, i)
                        /\ emitted' = <<Msg("playerLeft", Others(s, m),
                                            <<matches[m].players[i].number,
                                              Len(matches'[m].players)>>)>>]_vars
  /\ [](\A s \in Sockets : ~sock[s].connected =>
          \A m \in MatchIds : Has(m) =>
            \A i \in 1..Len(matches[m].players) : matches[m].players[i].id # s)

\* A step in which a playerMove, a puckUpdate or a goalScored message of a
\* member of match m takes effect: the connection's movementBuffer gets a
\* new entry, a puckSync goes to the other clients, or a scoreUpdate goes
\* out without the tick's gameUpdate.
TakesEffect(m) ==
  \/ \E s \in Sockets :
        /\ sock[s].matchId = m
        /\ sock'[s].movementBuffer # sock[s].movementBuffer
        /\ sock'[s].movementBuffer # <<>>
        /\ sock'[s].movementBuffer[Len(sock'[s].movementBuffer)].age = 0
  \/ \E i \in 1..Len(emitted') : /\ emitted'[i].type \in {"puckSync", "opponentMove"}
                                 /\ emitted'[i].to[1] = "others"
                                 /\ emitted'[i].to[3] = m
  \/ /\ \E i \in 1..Len(emitted') : /\ emitted'[i].type = "scoreUpdate"
                                    /\ emitted'[i].to = Room(m)
     /\ ~EmittedIn(emitted', "gameUpdate")

\* C20: a playerMove, puckUpdate or goalScored message takes effect only in
\* a match that is playing and not over; received while isPlaying is false
\* or after game over it changes nothing and nothing is sent.
C20_IgnoredUnlessPlaying ==
  [][\A m \in MatchIds : (Has(m) /\ TakesEffect(m)) =>
       /\ matches[m].gameState.isPlaying
       /\ ~matches[m].gameState.gameOver]_vars

\* C21: a puckUpdate is applied to the puck (and relayed) only if its age,
\* server time minus its timestamp, is known and below 200 ms.
C21_OnlyFreshUpdates ==
  lastStamp # <<>> =>
    /\ EmittedIn(emitted, "puckSync")
    /\ lastStamp[1].known
    /\ lastStamp[1].age < STALE_MS


\* The puck lies on the board of match m: its centre keeps PUCK_RADIUS from
\* every wall.
OnBoard(g) ==
  /\ Px(PUCK_RADIUS) <= g.puckPos.x
  /\ g.puckPos.x <= Px(g.canvasSize.width - PUCK_RADIUS)
  /\ Px(PUCK_RADIUS) <= g.puckPos.y
  /\ g.puckPos.y <= Px(g.canvasSize.height - PUCK_RADIUS)

\* a physics tick: the only step that sends gameUpdate
TickStep == EmittedIn(emitted', "gameUpdate")

\* C22: a physics tick of a match whose board size is known, taken with the
\* puck on the board, leaves the puck on the board: PUCK_RADIUS <= x <=
\* W - PUCK_RADIUS and PUCK_RADIUS <= y <= H - PUCK_RADIUS, also when the
\* tick resolves a player or corner collision.
C22_PuckStaysOnBoard ==
  [][\A m \in MatchIds :
       (/\ TickStep
        /\ Has(m)
        /\ CanvasKnown(m)
        /\ OnBoard(matches[m].gameState))
       => OnBoard(matches'[m].gameState)]_vars


\* The puck of the match record mt, moved by a tick of dt ms, reaches the
\* top boundary (a goal for player 1) or the bottom boundary (a goal for
\* player 2) with x strictly inside the goal mouth and its y-velocity
\* directed into that goal, while no goal cooldown is active.
IntoGoal(mt, dt, scorer) ==
  LET gs == mt.gameState
      vx == gs.puckVelocity.x - Scale(gs.puckVelocity.x, Loss(dt), 1000000)
      vy == gs.puckVelocity.y - Scale(gs.puckVelocity.y, Loss(dt), 1000000)
      newX == gs.puckPos.x + Scale(vx, dt * 6, 10000)
      newY == gs.puckPos.y + Scale(vy, dt * 6, 10000)
  IN /\ ~mt.goalCooldown
     /\ 2 * newX > Px(gs.canvasSize.width - GOAL_WIDTH)
     /\ 2 * newX < Px(gs.canvasSize.width + GOAL_WIDTH)
     /\ IF scorer = 1
        THEN newY - Px(PUCK_RADIUS) < 0 /\ vy < 0
        ELSE newY + Px(PUCK_RADIUS) > Px(gs.canvasSize.height) /\ vy > 0

\* C23: a score goes up only in a step in which the puck reaches the top or
\* bottom boundary with x strictly inside the goal mouth
\* ((W - GOAL_WIDTH)/2, (W + GOAL_WIDTH)/2), its y-velocity directed into
\* that goal, and no goal cooldown active.
C23_GoalOnlyAtMouth ==
  [][\A m \in MatchIds :
       (Has(m) /\ m \in DOMAIN matches') =>
         /\ matches'[m].gameState.player1Score > matches[m].gameState.player1Score
              => \E dt \in TickDts : IntoGoal(matches[m], dt, 1)
         /\ matches'[m].gameState.player2Score > matches[m].gameState.player2Score
              => \E dt \in TickDts : IntoGoal(matches[m], dt, 2)]_vars


\* The step accepts a playerMove of player n: it relays opponentMove for n.
AcceptsMove(n) ==
  /\ EmittedIn(emitted', "opponentMove")
  /\ emitted'[1].arg[1] = n

\* Position p keeps PLAYER_RADIUS from the side walls and lies in the half of
\* player n of a board of the size c, PLAYER_RADIUS from its ends.
InOwnHalf(p, n, c) ==
  /\ Px(PLAYER_RADIUS) <= p.x
  /\ p.x <= Px(c.width - PLAYER_RADIUS)
  /\ IF n = 1
     THEN /\ RDiv(Px(c.height), 2) + Px(PLAYER_RADIUS) <= p.y
          /\ p.y <= Px(c.height - PLAYER_RADIUS)
     ELSE /\ Px(PLAYER_RADIUS) <= p.y
          /\ p.y <= RDiv(Px(c.height), 2) - Px(PLAYER_RADIUS)

\* C24: after every accepted playerMove in a match whose board W x H has
\* W >= 2 * PLAYER_RADIUS and H >= 4 * PLAYER_RADIUS, the stored position of
\* the moving player has PLAYER_RADIUS <= x <= W - PLAYER_RADIUS and y in the
\* player's own half with the radius as margin, whatever position was
\* reported, and the position of the other player is unchanged.
C24_MoveClamped ==
  [][\A m \in MatchIds :
       (/\ Has(m)
        /\ matches[m].gameState.canvasSize.width >= 2 * PLAYER_RADIUS
        /\ matches[m].gameState.canvasSize.height >= 4 * PLAYER_RADIUS)
       => /\ AcceptsMove(1) =>
               /\ InOwnHalf(matches'[m].gameState.player1Pos, 1,
                            matches[m].gameState.canvasSize)
               /\ matches'[m].gameState.player2Pos = matches[m].gameState.player2Pos
          /\ AcceptsMove(2) =>
               /\ InOwnHalf(matches'[m].gameState.player2Pos, 2,
                            matches[m].gameState.canvasSize)
               /\ matches'[m].gameState.player1Pos = matches[m].gameState.player1Pos]_vars

\* a move reported outside the board has been accepted and stored at the
\* nearest allowed position
C24_Witness ==
  /\ Has("m1")
  /\ EmittedIn(emitted, "opponentMove")
  /\ emitted[1].arg[1] = 2
  /\ matches["m1"].gameState.player2Pos =
       Vec(Px(BigCanvas.width - PLAYER_RADIUS), Px(PLAYER_RADIUS))


\* The step is a playerMove of connection s that arrives gap ms after the
\* move of s accepted last.
MovesAfter(s, gap) ==
  /\ sock[s].lastMoveAge = 0
  /\ sock[s].movementBuffer # <<>>
  /\ Len(sock'[s].movementBuffer) = Len(sock[s].movementBuffer) + 1
  /\ sock'[s].movementBuffer[1].age = sock[s].movementBuffer[1].age + gap

\* movementSpeed, measured over the movementBuffer b, in pixels per ms
FastMove(b) ==
  /\ Len(b) >= 2
  /\ b[1].age - b[Len(b)].age > 0
  /\ Hyp(b[Len(b)].position.x - b[1].position.x,
         b[Len(b)].position.y - b[1].position.y)
       > 10 * (b[1].age - b[Len(b)].age)
SlowMove(b) ==
  \/ Len(b) < 2
  \/ b[1].age - b[Len(b)].age <= 0
  \/ Hyp(b[Len(b)].position.x - b[1].position.x,
         b[Len(b)].position.y - b[1].position.y)
       < b[1].age - b[Len(b)].age

\* the move of s is dropped: no position, no position history, no relay
MoveRejected == matches' = matches /\ emitted' = <<>>
MoveAccepted(s) == AcceptsMove(sock[s].playerNumber) /\ sock'[s].lastMoveAge = 0

\* C25: a playerMove arriving 5 ms after the accepted move of the same
\* connection is rejected (no change to the player position or the position
\* history, no opponentMove) when the measured movement speed is low, and is
\* accepted when the measured speed exceeds the fast-movement threshold.
C25_AdaptiveThrottle ==
  [][\A s \in Sockets :
       MovesAfter(s, 5) =>
         /\ SlowMove(sock'[s].movementBuffer) => MoveRejected
         /\ FastMove(sock'[s].movementBuffer) => MoveAccepted(s)]_vars

\* C25, amended: a playerMove arriving 5 ms after the accepted move of the
\* same connection is rejected whatever the measured speed, the shortest
\* throttle being 8 ms; one arriving 20 ms after it is rejected when the
\* measured speed is low and accepted when it exceeds the fast-movement
\* threshold.
C25_ThrottleFloor ==
  [][\A s \in Sockets :
       /\ MovesAfter(s, 5) => MoveRejected
       /\ MovesAfter(s, 20) =>
            /\ SlowMove(sock'[s].movementBuffer) => MoveRejected
            /\ FastMove(sock'[s].movementBuffer) => MoveAccepted(s)]_vars

\* a fast move has been dropped 5 ms after the accepted one
C25_Witness ==
  \E s \in Sockets :
    /\ sock[s].lastMoveAge = 5
    /\ Len(sock[s].movementBuffer) = 2
    /\ sock[s].movementBuffer[1].age = 5
    /\ FastMove(sock[s].movementBuffer)
    /\ emitted = <<>>


\* C26: while the goal cooldown of a match is active, play is suspended:
\* isPlaying is false and the puck rests at the centre of the board with zero
\* velocity, whatever playerReady, playerMove or puckUpdate messages arrive.
C26_CooldownSuspends ==
  \A m \in MatchIds :
    (Has(m) /\ matches[m].goalCooldown) =>
      /\ ~matches[m].gameState.isPlaying
      /\ matches[m].gameState.puckVelocity = Zero
      /\ matches[m].gameState.puckPos =
           Vec(RDiv(Px(matches[m].gameState.canvasSize.width), 2),
               RDiv(Px(matches[m].gameState.canvasSize.height), 2))


\* the step handles a requestReset
ResetStep == EmittedIn(emitted', "gameReset")

\* C27: once gameOver is true it stays true, and both scores and the winner
\* stay as they are, in every step that is not a requestReset: ticks,
\* goalScored, playerMove, puckUpdate, playerReady, joins, disconnects and
\* timeouts.
C27_GameOverTerminal ==
  [][\A m \in MatchIds :
       (/\ Has(m)
        /\ matches[m].gameState.gameOver
        /\ ~ResetStep)
       => /\ m \in DOMAIN matches'
          /\ matches'[m].gameState.gameOver
          /\ matches'[m].gameState.winner = matches[m].gameState.winner
          /\ matches'[m].gameState.player1Score = matches[m].gameState.player1Score
          /\ matches'[m].gameState.player2Score = matches[m].gameState.player2Score]_vars

\* a playerReady has started the game again after it was over, and the
\* final score stands
C27_Witness ==
  \E m \in MatchIds :
    /\ Has(m)
    /\ matches[m].gameState.gameOver
    /\ matches[m].gameState.player1Score = WINNING_SCORE
    /\ EmittedIn(emitted, "gameStart")


\* C28: each score is a natural number, and no step other than a
\* requestReset lowers a score: no join, playerReady, playerMove, puckUpdate,
\* tick, goal, timeout or disconnect.
C28_ScoresOnlyGrow ==
  [][\A m \in MatchIds :
       /\ m \in DOMAIN matches' =>
            /\ matches'[m].gameState.player1Score \in Nat
            /\ matches'[m].gameState.player2Score \in Nat
       /\ (Has(m) /\ m \in DOMAIN matches' /\ ~ResetStep) =>
            /\ matches'[m].gameState.player1Score >= matches[m].gameState.player1Score
            /\ matches'[m].gameState.player2Score >= matches[m].gameState.player2Score]_vars

\* both players have scored, the second goal by a tick of the physics
C28_Witness ==
  \E m \in MatchIds :
    /\ Has(m)
    /\ matches[m].gameState.player1Score >= 2
    /\ matches[m].gameState.player2Score >= 1
    /\ EmittedIn(emitted, "gameUpdate")
    /\ EmittedIn(emitted, "scoreUpdate")


\* C29: stopping the tick schedule of a match is idempotent (stopping a
\* stopped schedule changes nothing), a match never has more than one
\* interval timer running, however often playerReady is received, and a tick
\* changes nothing in a match whose schedule has been stopped or that has
\* fewer than two players.
C29_OneSchedule ==
  [][\A m \in MatchIds :
       /\ m \in DOMAIN matches' =>
            /\ matches'[m].intervals <= 1
            /\ matches'[m].intervals = 1 <=> matches'[m].updateInterval
            /\ stopGameLoop(stopGameLoop(matches'[m])) = stopGameLoop(matches'[m])
            /\ ~matches'[m].updateInterval => stopGameLoop(matches'[m]) = matches'[m]
       /\ (/\ TickStep
           /\ Has(m)
           /\ ~matches[m].updateInterval \/ Len(matches[m].players) < 2)
          => /\ m \in DOMAIN matches'
             /\ matches'[m] = matches[m]]_vars

\* the schedule of a match was stopped by a disconnect and started again by
\* the playerReady of a new player, and its one timer has ticked
C29_Witness ==
  \E m \in MatchIds :
    /\ Has(m)
    /\ \E s \in Sockets : ~sock[s].connected
    /\ matches[m].intervals = 1
    /\ EmittedIn(emitted, "gameUpdate")


\* The match record `after` has the puck, both scores, the cooldown flag and
\* the position history of the record mt.
Skipped(mt, after) ==
  /\ after.gameState.puckPos = mt.gameState.puckPos
  /\ after.gameState.puckVelocity = mt.gameState.puckVelocity
  /\ after.gameState.player1Score = mt.gameState.player1Score
  /\ after.gameState.player2Score = mt.gameState.player2Score
  /\ after.goalCooldown = mt.goalCooldown
  /\ after.positionHistory = mt.positionHistory

\* C30: a physics tick taken while isPlaying is false, or gameOver is true,
\* or the goal cooldown is active leaves the puck position and velocity,
\* both scores, the cooldown flag and the position history unchanged and
\* reports no collision.
C30_SuspendedTickSkips ==
  [][\A m \in MatchIds :
       (/\ TickStep
        /\ Has(m)
        /\ \/ ~matches[m].gameState.isPlaying
           \/ matches[m].gameState.gameOver
           \/ matches[m].goalCooldown)
       => /\ m \in DOMAIN matches'
          /\ Skipped(matches[m], matches'[m])
          /\ \A i \in 1..Len(emitted') :
               emitted'[i].type = "gameUpdate" => ~emitted'[i].arg[3]]_vars

\* a tick has been taken during a goal cooldown, the puck moving
C30_Witness ==
  \E m \in MatchIds :
    /\ Has(m)
    /\ matches[m].goalCooldown
    /\ matches[m].gameState.isPlaying
    /\ matches[m].gameState.puckVelocity # Zero
    /\ EmittedIn(emitted, "gameUpdate")


\* C31: gameUpdate and the tick's puckSync are sent only while the match is
\* playing at the moment of sending: in the step that resolves a goal nothing
\* of the two follows the scoreUpdate of that goal, and a match that is not
\* playing after a step was sent neither in it.
C31_UpdatesOnlyWhilePlaying ==
  /\ \A i, j \in 1..Len(emitted) :
       (i < j /\ emitted[i].type = "scoreUpdate")
         => emitted[j].type \notin {"gameUpdate", "puckSync"}
  /\ \A m \in MatchIds :
       (Has(m) /\ ~matches[m].gameState.isPlaying)
         => ~EmittedIn(emitted, "gameUpdate")


\* the step's gameUpdate reports a collision
CollisionTick ==
  \E i \in 1..Len(emitted') :
    emitted'[i].type = "gameUpdate" /\ emitted'[i].arg[3]

Between(a, b, c) == (a <= b /\ b <= c) \/ (c <= b /\ b <= a)

\* b is 0.7 * a + 0.3 * c, to the nearest unit
Blended(a, b, c) == Abs(10 * b - (7 * a + 3 * c)) <= 5 /\ Between(a, b, c)

\* C33: an accepted puckUpdate sets each axis of the puck position and
\* velocity to 0.7 * (server value before) + 0.3 * (client value), a value
\* between the two, and relays this blended state to the other client.
C33_UpdateBlends ==
  [][\A m \in MatchIds :
       (lastStamp' # <<>> /\ Has(m)) =>
         LET old == matches[m].gameState
             new == matches'[m].gameState
             pos == lastStamp'[2]
             vel == lastStamp'[3]
         IN /\ Blended(old.puckPos.x, new.puckPos.x, pos.x)
            /\ Blended(old.puckPos.y, new.puckPos.y, pos.y)
            /\ Blended(old.puckVelocity.x, new.puckVelocity.x, vel.x)
            /\ Blended(old.puckVelocity.y, new.puckVelocity.y, vel.y)
            /\ Len(emitted') = 1
            /\ emitted'[1].type = "puckSync"
            /\ emitted'[1].arg = <<new.puckPos, new.puckVelocity>>]_vars

\* a correction has been blended in: the puck is where neither the server
\* had it nor the client reported it
C33_Witness ==
  \E m \in MatchIds :
    /\ Has(m)
    /\ lastStamp # <<>>
    /\ matches[m].gameState.puckPos = Vec(Px(141), Px(24))
    /\ lastStamp[2] = Vec(Px(400), Px(10))
    /\ matches[m].gameState.puckVelocity # lastStamp[3]
    /\ EmittedIn(emitted, "puckSync")


\* The velocity of the puck of mt after the decay of a tick of dt ms, and the
\* candidate position of that tick.
Decayed(mt, dt) ==
  Vec(mt.gameState.puckVelocity.x
        - Scale(mt.gameState.puckVelocity.x, Loss(dt), 1000000),
      mt.gameState.puckVelocity.y
        - Scale(mt.gameState.puckVelocity.y, Loss(dt), 1000000))
Candidate(mt, dt) ==
  Vec(mt.gameState.puckPos.x + Scale(Decayed(mt, dt).x, dt * 6, 10000),
      mt.gameState.puckPos.y + Scale(Decayed(mt, dt).y, dt * 6, 10000))

\* the tick of dt ms moves the puck of mt, and its candidate position
\* touches player n
Moving(mt, dt) ==
  /\ mt.gameState.isPlaying
  /\ ~mt.gameState.gameOver
  /\ ~mt.goalCooldown
  /\ ~Shorter(Decayed(mt, dt).x, Decayed(mt, dt).y, MIN_VELOCITY)
Touches(mt, dt, n) ==
  LET p == IF n = 1 THEN mt.gameState.player1Pos ELSE mt.gameState.player2Pos
  IN Shorter(Candidate(mt, dt).x - p.x, Candidate(mt, dt).y - p.y,
             Px(PUCK_RADIUS + PLAYER_RADIUS))

\* the puck of the game state gs lies PLAYER_RADIUS + PUCK_RADIUS + 1 from
\* player n, to the half pixel that the rounded normal vector costs
PushedOff(gs, n) ==
  LET p == IF n = 1 THEN gs.player1Pos ELSE gs.player2Pos
      d == Hyp(gs.puckPos.x - p.x, gs.puckPos.y - p.y)
  IN Abs(d - Px(PLAYER_RADIUS + PUCK_RADIUS + 1)) <= 5

\* C34: a tick resolves its collisions in the order player 1, player 2,
\* corner, wall or goal, free motion, and at most one player collision: when
\* the candidate position touches player 1 only player 1's handler runs,
\* also when it touches player 2 as well; when it touches player 2 alone,
\* player 2's handler runs; and a tick that ran a player's handler resolves
\* no corner, wall or goal: no score changes and the puck lies pushed off
\* that player.
C34_CollisionOrder ==
  [][\A m \in MatchIds :
       (TickStep /\ Has(m)) =>
         LET mt == matches[m]
             ran == matches'[m].collisionHistory \ mt.collisionHistory
         IN /\ Cardinality(ran) <= 1
            /\ (\A dt \in TickDts : Moving(mt, dt) /\ Touches(mt, dt, 1))
                 => ran = {1}
            /\ (\A dt \in TickDts :
                  Moving(mt, dt) /\ ~Touches(mt, dt, 1) /\ Touches(mt, dt, 2))
                 => ran = {2}
            /\ (\A dt \in TickDts : ~Touches(mt, dt, 1) /\ ~Touches(mt, dt, 2))
                 => ran = {}
            /\ \A n \in ran :
                 /\ matches'[m].gameState.player1Score = mt.gameState.player1Score
                 /\ matches'[m].gameState.player2Score = mt.gameState.player2Score
                 /\ ~EmittedIn(emitted', "scoreUpdate")
                 /\ PushedOff(matches'[m].gameState, n)]_vars

\* a tick whose candidate position touched both players has run the handler
\* of player 1
C34_Witness ==
  \E m \in MatchIds :
    /\ Has(m)
    /\ EmittedIn(emitted, "gameUpdate")
    /\ matches[m].collisionHistory = {1}
    /\ matches[m].gameState.player1Pos = Vec(Px(400), Px(335))
    /\ matches[m].gameState.player2Pos = Vec(Px(400), Px(265))
    /\ PushedOff(matches[m].gameState, 1)
    /\ checkPuckPlayerCollision(matches[m].gameState.puckPos,
                                matches[m].gameState.player2Pos)


\* The tick of dt ms on mt gets as far as the walls: the puck moves and its
\* candidate position touches no player and no corner.
ReachesWalls(mt, dt) ==
  /\ Moving(mt, dt)
  /\ ~Touches(mt, dt, 1)
  /\ ~Touches(mt, dt, 2)
  /\ checkCornerCollision(Candidate(mt, dt).x, Candidate(mt, dt).y, PUCK_RADIUS,
                          mt.gameState.canvasSize.width,
                          mt.gameState.canvasSize.height) = "none"

\* C35: a tick that resolves a wall bounce (left, right, top or bottom, also
\* a contact inside the goal mouth that is no valid goal) leaves the bounced
\* velocity component pointing away from that wall into the board with a
\* magnitude of at least 2, and the puck just inside that wall.
C35_BounceLeavesWall ==
  [][\A m \in MatchIds :
       (TickStep /\ Has(m)) =>
         LET mt == matches[m]
             w == mt.gameState.canvasSize.width
             h == mt.gameState.canvasSize.height
             new == matches'[m].gameState
             hits(side) ==
               \A dt \in TickDts :
                 /\ ReachesWalls(mt, dt)
                 /\ ~IntoGoal(mt, dt, 1)
                 /\ ~IntoGoal(mt, dt, 2)
                 /\ CASE side = "left" -> Candidate(mt, dt).x - Px(PUCK_RADIUS) < 0
                      [] side = "right" -> Candidate(mt, dt).x + Px(PUCK_RADIUS) > Px(w)
                      [] side = "top" -> Candidate(mt, dt).y - Px(PUCK_RADIUS) < 0
                      [] side = "bottom" -> Candidate(mt, dt).y + Px(PUCK_RADIUS) > Px(h)
         IN /\ hits("left") => /\ new.puckVelocity.x >= Speed(2)
                               /\ new.puckPos.x = Px(PUCK_RADIUS) + 5
            /\ hits("right") => /\ new.puckVelocity.x <= -Speed(2)
                                /\ new.puckPos.x = Px(w - PUCK_RADIUS) - 5
            /\ hits("top") => /\ new.puckVelocity.y >= Speed(2)
                              /\ new.puckPos.y = Px(PUCK_RADIUS) + 5
            /\ hits("bottom") => /\ new.puckVelocity.y <= -Speed(2)
                                 /\ new.puckPos.y = Px(h - PUCK_RADIUS) - 5]_vars

\* The puck lies exactly on the centre of player n: the normal of a collision
\* with that player has length zero
OnPlayer(gs, n) ==
  gs.puckPos = (IF n = 1 THEN gs.player1Pos ELSE gs.player2Pos)

\* C36: a collision step that meets a zero-length normal changes neither the
\* position nor the velocity of the puck, so no reachable state has a puck
\* coordinate or a velocity component that is NaN.
C36_NoUndefinedPuck ==
  \A m \in MatchIds :
    Has(m) => /\ ~IsNaN(matches[m].gameState.puckPos)
              /\ ~IsNaN(matches[m].gameState.puckVelocity)

\* The part of C36 about the player handler: a tick that finds the puck
\* exactly on a player it touches leaves the position of the puck alone.
C36_PlayerNormalZero ==
  [][\A m \in MatchIds :
       (/\ TickStep
        /\ \E n \in 1..2 : OnPlayer(matches[m].gameState, n)
        /\ ~Suspended(matches[m]))
       => matches'[m].gameState.puckPos = matches[m].gameState.puckPos]_vars
\* the speed of the velocity v is at most MAX_SPEED (to the 0.005 pixels per
\* frame that the rounded square root and quotients of LimitSpeed cost), the
\* speed of w at most that of v
AtMostMax(v) == ~Longer(v.x, v.y, Speed(MAX_SPEED) + 5)
NotFaster(w, v) == w.x * w.x + w.y * w.y <= v.x * v.x + v.y * v.y

\* the step is an accepted playerMove that resolved a collision with the
\* puck: it sends opponentMove and puckSync
HitStep == EmittedIn(emitted', "opponentMove") /\ EmittedIn(emitted', "puckSync")

InContact(m, n) ==
  LET p == IF n = 1 THEN matches'[m].gameState.player1Pos
           ELSE matches'[m].gameState.player2Pos
      puck == matches[m].gameState.puckPos
  IN Shorter(puck.x - p.x, puck.y - p.y, Px(PUCK_RADIUS + PLAYER_RADIUS))

\* C38: every accepted playerMove whose constrained position is in contact
\* with the puck runs the player collision handler in that step: the puck
\* ends PUCK_RADIUS + PLAYER_RADIUS + 1 from that player, and a puckSync with
\* the new puck goes to both clients of the match.
C38_MoveStrikesPuck ==
  [][\A m \in MatchIds, n \in 1..2 :
       (AcceptsMove(n) /\ InContact(m, n)) =>
         /\ PushedOff(matches'[m].gameState, n)
         /\ \E i \in 1..Len(emitted') :
              /\ emitted'[i].type = "puckSync"
              /\ emitted'[i].to = Room(m)
              /\ emitted'[i].arg = <<matches'[m].gameState.puckPos,
                                     matches'[m].gameState.puckVelocity>>]_vars
\* the entries of the player lists of all matches of the registry that carry
\* the connection s, as pairs of match id and index
ListedAs(s) ==
  {e \in {<<m, i>> : m \in DOMAIN matches, i \in 1..2} :
     e[2] <= Len(matches[e[1]].players) /\ matches[e[1]].players[e[2]].id = s}

\* C39: a connection is listed as a player at most once over all matches of
\* the registry, also after it has sent joinMatch more than once, for the
\* same or for different match ids.
C39_ListedOnce == \A s \in Sockets : Cardinality(ListedAs(s)) <= 1
\* the lifecycle states of a match
Playing(mt) == mt.gameState.isPlaying /\ ~mt.goalCooldown /\ ~mt.gameState.gameOver
GoalCooldown(mt) == mt.goalCooldown /\ ~mt.gameState.isPlaying /\ ~mt.gameState.gameOver
GameOver(mt) == mt.gameState.gameOver
BothReady(mt) == Len(mt.players) = 2 /\ \A i \in 1..2 : mt.players[i].ready

\* C40: a match with two players that are both ready is in exactly one of
\* the states Playing, GoalCooldown and GameOver (so it is never left with
\* isPlaying, goalCooldown and gameOver all false, also not by a requestReset
\* in GameOver), and neither score exceeds WINNING_SCORE.
C40_OneLifecycleState ==
  \A m \in DOMAIN matches :
    LET mt == matches[m]
    IN /\ BothReady(mt) =>
            Cardinality({k \in 1..3 :
                           \/ k = 1 /\ Playing(mt)
                           \/ k = 2 /\ GoalCooldown(mt)
                           \/ k = 3 /\ GameOver(mt)}) = 1
       /\ mt.gameState.player1Score <= WINNING_SCORE
       /\ mt.gameState.player2Score <= WINNING_SCORE
====
